---- MODULE Spec2Model ----
(***************************************************************************)
(* Correction engine of the Yoruba spelling corrector.                     *)
(*                                                                         *)
(* A string is a sequence of Unicode code points (integers); a word, a     *)
(* sentence and a file line are strings.  The engine state is the fields   *)
(* of the corrector objects; every public operation is an action that      *)
(* records the call (op, args) and what it returned (ret).                 *)
(***************************************************************************)
EXTENDS Integers, Sequences, FiniteSets, TLC

VARIABLES
    lexicon_file,        \* the lexicon file: [exists, lines]
    corpus_file,         \* the corpus file: [exists, text]
    lexicon,             \* YorubaSpellingCorrector.lexicon: list of words
    index,               \* YorubaSpellingCorrector.index: ordered key -> variants
    word_frequencies,    \* EnhancedYorubaSpellingCorrector.word_frequencies
    tonal_patterns,      \* EnhancedYorubaSpellingCorrector.tonal_patterns
    normalized_lexicon,  \* EnhancedYorubaSpellingCorrector.normalized_lexicon
    ngram_n,             \* NGramLanguageModel.n (0: no model was built)
    ngrams,              \* NGramLanguageModel.ngrams: context -> word -> count
    vocab,               \* NGramLanguageModel.vocab
    total_words,         \* NGramLanguageModel.total_words
    normalized_mapping,  \* LexiconIntegratedCorrector.normalized_mapping
    ml_loaded,           \* LexiconIntegratedCorrector._ml_loaded
    ml_corrector,        \* LexiconIntegratedCorrector._ml_corrector: [present, lexicon]
    rapidfuzz_available, \* RAPIDFUZZ_AVAILABLE of base_corrector
    ml_constructions,    \* how many times _ensure_ml_corrector called ContextAwareCorrector(...)
    pc,                  \* where each concurrent caller stands in _ensure_ml_corrector
    op,                  \* name of the operation called last ("idle": none)
    args,                \* its arguments
    ret,                 \* what it returned
    raised               \* the exception it raised ("": none)

fileVars == <<lexicon_file, corpus_file>>

engineVars == <<lexicon, index, word_frequencies, tonal_patterns, normalized_lexicon>>

ngramVars == <<ngram_n, ngrams, vocab, total_words>>

liVars == <<normalized_mapping, ml_loaded, ml_corrector, rapidfuzz_available>>

loadVars == <<ml_constructions, pc>>

callVars == <<op, args, ret, raised>>

vars == <<fileVars, engineVars, ngramVars, liVars, loadVars, callVars>>

(***************************************************************************)
(* Generic helpers                                                         *)
(***************************************************************************)
Range(s) == {s[i] : i \in DOMAIN s}

StringsUpTo(S, n) == UNION {[1..k -> S] : k \in 0..n}

Min2(a, b) == IF a <= b THEN a ELSE b

Max2(a, b) == IF a >= b THEN a ELSE b

(***************************************************************************)
(* Unicode data used by str.lower, str.split, str.strip and                *)
(* unicodedata.normalize / unicodedata.category, restricted to the code    *)
(* points the model draws strings from.                                    *)
(*   32 space, 9 tab, 45 hyphen, 35 '#'                                    *)
(*   65..90 A..Z, 97..122 a..z                                             *)
(*   768 U+0300 combining grave, 769 U+0301 combining acute,               *)
(*   772 U+0304 combining macron, 803 U+0323 combining dot below           *)
(*   192.. precomposed Latin-1 vowels, 7865 U+1EB9 e-dot-below,            *)
(*   7885 U+1ECD o-dot-below, 7779 U+1E63 s-dot-below                      *)
(***************************************************************************)
\* <<precomposed, base, combining mark>>: the canonical decompositions
CanonicalDecomposition ==
    { <<192, 65, 768>>, <<193, 65, 769>>, <<200, 69, 768>>, <<201, 69, 769>>,
      <<204, 73, 768>>, <<205, 73, 769>>, <<210, 79, 768>>, <<211, 79, 769>>,
      <<217, 85, 768>>, <<218, 85, 769>>,
      <<224, 97, 768>>, <<225, 97, 769>>, <<232, 101, 768>>, <<233, 101, 769>>,
      <<236, 105, 768>>, <<237, 105, 769>>, <<242, 111, 768>>, <<243, 111, 769>>,
      <<249, 117, 768>>, <<250, 117, 769>>,
      <<256, 65, 772>>, <<257, 97, 772>>, <<274, 69, 772>>, <<275, 101, 772>>,
      <<298, 73, 772>>, <<299, 105, 772>>, <<332, 79, 772>>, <<333, 111, 772>>,
      <<362, 85, 772>>, <<363, 117, 772>>,
      <<7864, 69, 803>>, <<7865, 101, 803>>, <<7884, 79, 803>>, <<7885, 111, 803>>,
      <<7778, 83, 803>>, <<7779, 115, 803>> }

\* unicodedata.normalize('NFD', c) of one code point
Decompose(c) ==
    IF \E t \in CanonicalDecomposition : t[1] = c
    THEN LET t == CHOOSE t \in CanonicalDecomposition : t[1] = c IN <<t[2], t[3]>>
    ELSE <<c>>

\* unicodedata.normalize('NFD', word).  NFD also reorders adjacent combining
\* marks by combining class; every caller drops the marks, so the order among
\* them is not kept here.
RECURSIVE NFD(_)
NFD(word) == IF word = <<>> THEN <<>> ELSE Decompose(Head(word)) \o NFD(Tail(word))

\* unicodedata.category(c) = 'Mn'
IsMn(c) == c \in {768, 769, 772, 803}

\* str.lower of one code point
LowerChar(c) ==
    IF c \in 65..90 THEN c + 32
    ELSE IF c \in {192, 193, 200, 201, 204, 205, 210, 211, 217, 218} THEN c + 32
    ELSE IF c \in {256, 274, 298, 332, 362, 7864, 7884, 7778} THEN c + 1
    ELSE c

Lower(s) == [i \in DOMAIN s |-> LowerChar(s[i])]

\* str.isspace of one code point
IsSpace(c) == c \in {9, 10, 32}

(***************************************************************************)
(* YorubaSpellingCorrector.strip_diacritics                                *)
(***************************************************************************)
NotMark(c) == ~IsMn(c)

\* the marks filtered from the raw word, before it is decomposed
strip_diacritics_filter_first(word) == Lower(NFD(SelectSeq(word, NotMark)))

strip_diacritics(word) == Lower(SelectSeq(NFD(word), NotMark))

(***************************************************************************)
(* EnhancedYorubaSpellingCorrector._levenshtein_distance                   *)
(***************************************************************************)
Min3(a, b, c) == Min2(a, Min2(b, c))

\* a substitution charged also when the two characters are equal
SubCostAlways(c1, c2) == 1

\* (c1 != c2) as an integer
SubCost(c1, c2) == IF c1 # c2 THEN 1 ELSE 0

\* the inner loop over s2: extends current_row from previous_row
RECURSIVE LevInner(_, _, _, _, _)
LevInner(c1, s2, j, current_row, previous_row) ==
    IF j > Len(s2) THEN current_row
    ELSE LET insertions    == previous_row[j + 1] + 1
             deletions     == current_row[j] + 1
             substitutions == previous_row[j] + SubCost(c1, s2[j])
         IN LevInner(c1, s2, j + 1,
                     Append(current_row, Min3(insertions, deletions, substitutions)),
                     previous_row)

\* the outer loop over s1; current_row starts as [i + 1] (i counted from 0)
RECURSIVE LevRows(_, _, _, _)
LevRows(s1, s2, i, previous_row) ==
    IF i > Len(s1) THEN previous_row
    ELSE LevRows(s1, s2, i + 1, LevInner(s1[i], s2, 1, <<i>>, previous_row))

RECURSIVE _levenshtein_distance(_, _)
_levenshtein_distance(s1, s2) ==
    IF Len(s1) < Len(s2) THEN _levenshtein_distance(s2, s1)
    ELSE IF Len(s2) = 0 THEN Len(s1)
    ELSE LET last == LevRows(s1, s2, 1, [j \in 1..(Len(s2) + 1) |-> j - 1])
         IN last[Len(last)]

(***************************************************************************)
(* Python string and list operations the engine uses                       *)
(***************************************************************************)
\* s[:k] of a list or string: a negative k counts from the end
SlicePrefix(s, k) ==
    IF k >= 0 THEN SubSeq(s, 1, Min2(k, Len(s)))
    ELSE SubSeq(s, 1, Max2(Len(s) + k, 0))

RECURSIVE LStrip(_)
LStrip(s) == IF s # <<>> /\ IsSpace(Head(s)) THEN LStrip(Tail(s)) ELSE s

RECURSIVE RStrip(_)
RStrip(s) ==
    IF s # <<>> /\ IsSpace(s[Len(s)]) THEN RStrip(SubSeq(s, 1, Len(s) - 1)) ELSE s

\* str.strip()
Strip(s) == RStrip(LStrip(s))

\* str.split(): the maximal runs of non-whitespace characters, in order.
\* cur is the run being read.
RECURSIVE SplitFrom(_, _, _)
SplitFrom(s, i, cur) ==
    IF i > Len(s) THEN (IF cur = <<>> THEN <<>> ELSE <<cur>>)
    ELSE IF IsSpace(s[i])
         THEN (IF cur = <<>> THEN <<>> ELSE <<cur>>) \o SplitFrom(s, i + 1, <<>>)
         ELSE SplitFrom(s, i + 1, Append(cur, s[i]))

Split(s) == SplitFrom(s, 1, <<>>)

\* ' '.join(words)
RECURSIVE JoinSpace(_)
JoinSpace(words) ==
    IF words = <<>> THEN <<>>
    ELSE IF Len(words) = 1 THEN words[1]
    ELSE words[1] \o <<32>> \o JoinSpace(Tail(words))

\* the regular expression class \w on the code points of the model: letters,
\* digits and the underscore; combining marks, spaces, '-' and '#' are not
IsWordChar(c) ==
    \/ c \in 48..57
    \/ c \in 65..90
    \/ c \in 97..122
    \/ c = 95
    \/ \E t \in CanonicalDecomposition : t[1] = c

\* re.findall(r'\b\w+\b', text): the maximal runs of \w characters
RECURSIVE FindWordsFrom(_, _, _)
FindWordsFrom(s, i, cur) ==
    IF i > Len(s) THEN (IF cur = <<>> THEN <<>> ELSE <<cur>>)
    ELSE IF ~IsWordChar(s[i])
         THEN (IF cur = <<>> THEN <<>> ELSE <<cur>>) \o FindWordsFrom(s, i + 1, <<>>)
         ELSE FindWordsFrom(s, i + 1, Append(cur, s[i]))

FindWords(text) == FindWordsFrom(text, 1, <<>>)

\* list.sort(key=lambda x: x[1]) of (item, key) pairs with integer keys.
\* Python's sort is stable: x goes after every element whose key is not
\* greater than its own.
RECURSIVE InsertAscending(_, _)
InsertAscending(sorted, x) ==
    IF sorted = <<>> THEN <<x>>
    ELSE IF Head(sorted)[2] <= x[2]
         THEN <<Head(sorted)>> \o InsertAscending(Tail(sorted), x)
         ELSE <<x>> \o sorted

RECURSIVE SortAscendingFrom(_, _, _)
SortAscendingFrom(items, i, acc) ==
    IF i > Len(items) THEN acc
    ELSE SortAscendingFrom(items, i + 1, InsertAscending(acc, items[i]))

SortAscending(items) == SortAscendingFrom(items, 1, <<>>)

(***************************************************************************)
(* Construction: YorubaSpellingCorrector.__init__ and                      *)
(* EnhancedYorubaSpellingCorrector.__init__                                *)
(***************************************************************************)
NonBlank(line) == Strip(line) # <<>>

\* [line.strip() for line in f if line.strip()]
load_lexicon(lines) ==
    LET kept == SelectSeq(lines, NonBlank)
    IN [i \in DOMAIN kept |-> Strip(kept[i])]

\* d[key].append(word) on an insertion-ordered dict of lists, kept as a
\* sequence of [key, originals] in the order the keys were first inserted
DictAppend(d, key, word) ==
    IF \E i \in DOMAIN d : d[i].key = key
    THEN [i \in DOMAIN d |->
            IF d[i].key = key
            THEN [key |-> key, originals |-> Append(d[i].originals, word)]
            ELSE d[i]]
    ELSE Append(d, [key |-> key, originals |-> <<word>>])

RECURSIVE build_index_from(_, _, _)
build_index_from(words, i, idx) ==
    IF i > Len(words) THEN idx
    ELSE build_index_from(words, i + 1, DictAppend(idx, strip_diacritics(words[i]), words[i]))

build_index(words) == build_index_from(words, 1, <<>>)

RECURSIVE create_normalized_from(_, _, _)
create_normalized_from(words, i, d) ==
    IF i > Len(words) THEN d
    ELSE create_normalized_from(words, i + 1, DictAppend(d, strip_diacritics(words[i]), words[i]))

_create_normalized_lexicon(words) == create_normalized_from(words, 1, <<>>)

\* Counter(words): word -> number of occurrences
Counter(words) ==
    [w \in Range(words) |-> Cardinality({i \in DOMAIN words : words[i] = w})]

\* {} when there is no corpus path or no such file
_load_word_frequencies(corpus) ==
    IF corpus.exists THEN Counter(FindWords(Lower(corpus.text))) ELSE <<>>

\* 'L', 'H', 'M' or '_' for one character
TonalClass(ch) ==
    IF ch \in {224, 232, 236, 242, 249, 192, 200, 204, 210, 217} THEN 76
    ELSE IF ch \in {225, 233, 237, 243, 250, 193, 201, 205, 211, 218} THEN 72
    ELSE IF ch \in {257, 275, 299, 333, 363, 256, 274, 298, 332, 362} THEN 77
    ELSE 95

_extract_tonal_pattern(word) == [i \in DOMAIN word |-> TonalClass(word[i])]

RECURSIVE learn_tonal_from(_, _, _)
learn_tonal_from(words, i, d) ==
    IF i > Len(words) THEN d
    ELSE learn_tonal_from(words, i + 1, DictAppend(d, _extract_tonal_pattern(words[i]), words[i]))

_learn_tonal_patterns(words) == learn_tonal_from(words, 1, <<>>)

\* the engine built from a readable lexicon file and an optional corpus
Constructed(file, corpus) ==
    /\ lexicon_file = file
    /\ corpus_file = corpus
    /\ lexicon = load_lexicon(file.lines)
    /\ index = build_index(load_lexicon(file.lines))
    /\ word_frequencies = _load_word_frequencies(corpus)
    /\ tonal_patterns = _learn_tonal_patterns(load_lexicon(file.lines))
    /\ normalized_lexicon = _create_normalized_lexicon(load_lexicon(file.lines))

\* the number of keys taken for the number of lexicon entries
get_stats_counting_words ==
    [total_words       |-> Len(lexicon),
     unique_normalized |-> Len(lexicon),
     average_variants  |-> IF Len(lexicon) # 0 THEN <<Len(lexicon), Len(lexicon)>> ELSE <<0, 1>>]

\* YorubaSpellingCorrector.get_stats; the average as the fraction
\* <<numerator, denominator>>
get_stats ==
    [total_words       |-> Len(lexicon),
     unique_normalized |-> Len(index),
     average_variants  |-> IF Len(index) # 0 THEN <<Len(lexicon), Len(index)>> ELSE <<0, 1>>]

(***************************************************************************)
(* Queries of the engine                                                   *)
(***************************************************************************)
\* membership up to diacritics and case instead of exact membership
is_correct_normalized(word) ==
    \E i \in DOMAIN lexicon : strip_diacritics(lexicon[i]) = strip_diacritics(word)

\* word in self.lexicon
is_correct(word) == \E i \in DOMAIN lexicon : lexicon[i] = word

\* the word looked up among the keys of the normalized lexicon instead of
\* the lexicon
exact_match_keys(word) == \E i \in DOMAIN normalized_lexicon : normalized_lexicon[i].key = word

\* word in self.lexicon
exact_match(word) == \E i \in DOMAIN lexicon : lexicon[i] = word

_normalize_word(word) == strip_diacritics(word)

\* max(self.word_frequencies.values())
MaxFrequency ==
    CHOOSE m \in Range(word_frequencies) : \A x \in Range(word_frequencies) : x <= m

\* a score that looks at the context: 1 for a word of the context, else 0
_contextual_score_of_context(word, context_words) ==
    IF word \in Range(context_words) THEN <<1, 1>> ELSE <<0, 1>>

\* the score as the fraction <<numerator, denominator>>: 1.0 with an empty
\* table, else freq / max_freq (0.5 if max_freq were 0)
_contextual_score(word, context_words) ==
    IF DOMAIN word_frequencies = {} THEN <<1, 1>>
    ELSE LET lw == Lower(word)
             freq == IF lw \in DOMAIN word_frequencies THEN word_frequencies[lw] ELSE 0
             max_freq == MaxFrequency
         IN IF max_freq # 0 THEN <<freq, max_freq>> ELSE <<1, 2>>

\* max_distance of find_closest_matches when the caller gives none
DefaultMaxDistance == 2

\* max_matches that correct_text_with_context asks for
ContextMaxMatches == 5

\* the (orig, dist) pairs of one key of the dict
MatchesOfKey(originals, dist) == [k \in DOMAIN originals |-> <<originals[k], dist>>]

\* a key at exactly max_distance left out
WithinDistanceStrict(dist, max_distance) == dist < max_distance

\* every key taken, however far
WithinDistanceAlways(dist, max_distance) == TRUE

\* dist <= max_distance
WithinDistance(dist, max_distance) == dist <= max_distance

\* the loop over self.normalized_lexicon.items()
RECURSIVE CollectMatches(_, _, _, _)
CollectMatches(normalized_input, max_distance, i, matches) ==
    IF i > Len(normalized_lexicon) THEN matches
    ELSE LET dist == _levenshtein_distance(normalized_input, normalized_lexicon[i].key)
         IN CollectMatches(normalized_input, max_distance, i + 1,
                IF WithinDistance(dist, max_distance)
                THEN matches \o MatchesOfKey(normalized_lexicon[i].originals, dist)
                ELSE matches)

\* the sort dropped: the matches stay in the order of the loop
SortMatchesNot(matches) == matches

\* matches.sort(key=lambda x: x[1])
SortMatches(matches) == SortAscending(matches)

\* the slice dropped: every match is returned
TruncateMatchesNot(matches, max_matches) == matches

\* matches[:max_matches]
TruncateMatches(matches, max_matches) == SlicePrefix(matches, max_matches)

find_closest_matches(word, max_matches, max_distance) ==
    IF exact_match(word) THEN <<word>>
    ELSE LET matches == SortMatches(CollectMatches(_normalize_word(word), max_distance, 1, <<>>))
             kept == TruncateMatches(matches, max_matches)
         IN [k \in DOMAIN kept |-> kept[k][1]]

\* a fraction greater than another, ties left out
ScoreGT(x, y) == x[1] * y[2] > y[1] * x[2]

\* a / b >= c / d for fractions with positive denominators
ScoreGE(x, y) == x[1] * y[2] >= y[1] * x[2]

\* x goes before the elements whose score equals its own: ties end up in
\* reverse list order
InsertDescendingBeforeTies(sorted, x) ==
    LET before == SelectSeq(sorted, LAMBDA e : ~ScoreGE(x[2], e[2]))
        after  == SelectSeq(sorted, LAMBDA e : ScoreGE(x[2], e[2]))
    IN before \o <<x>> \o after

\* list.sort(key=lambda x: x[1], reverse=True) of (item, score) pairs: stable,
\* so x goes after every element whose score is not smaller than its own
RECURSIVE InsertDescending(_, _)
InsertDescending(sorted, x) ==
    IF sorted = <<>> THEN <<x>>
    ELSE IF ScoreGE(Head(sorted)[2], x[2])
         THEN <<Head(sorted)>> \o InsertDescending(Tail(sorted), x)
         ELSE <<x>> \o sorted

RECURSIVE SortDescendingFrom(_, _, _)
SortDescendingFrom(items, i, acc) ==
    IF i > Len(items) THEN acc
    ELSE SortDescendingFrom(items, i + 1, InsertDescending(acc, items[i]))

SortDescending(items) == SortDescendingFrom(items, 1, <<>>)

\* defined for a non-empty list of matches; on an empty one scored[0] raises
\* IndexError
disambiguate_tonal_variants(matches, context) ==
    IF Len(matches) = 1 THEN matches[1]
    ELSE LET scored == [k \in DOMAIN matches |->
                          <<matches[k], _contextual_score(matches[k], Split(context))>>]
         IN SortDescending(scored)[1][1]

\* words[context_start:context_end] around position i (counted from 1)
ContextWindow(words, i) ==
    SubSeq(words, Max2(1, i - 2), Min2(Len(words), i + 2))

\* the body of the loop for the word at position i
CorrectWord(words, i) ==
    IF exact_match(words[i]) THEN words[i]
    ELSE LET context == JoinSpace(ContextWindow(words, i))
             matches == find_closest_matches(words[i], ContextMaxMatches, DefaultMaxDistance)
         IN IF matches # <<>> THEN disambiguate_tonal_variants(matches, context)
            ELSE words[i]

correct_text_with_context(text) ==
    LET words == Split(text)
    IN JoinSpace([i \in DOMAIN words |-> CorrectWord(words, i)])

(***************************************************************************)
(* NGramLanguageModel                                                      *)
(***************************************************************************)
\* s[-k:] of a list: the last k elements, and the whole list when k = 0
SliceSuffix(s, k) ==
    IF k = 0 THEN s ELSE SubSeq(s, Max2(1, Len(s) - k + 1), Len(s))

\* the windows the inner loop visits in one text: (context, next_word) at each i
Windows(n, words) ==
    [i \in 1..(Len(words) - n + 1) |->
        <<SubSeq(words, i, i + n - 2), words[i + n - 1]>>]

\* the windows the loops visit over the corpus, text by text
RECURSIVE CorpusWindows(_, _)
CorpusWindows(n, corpus) ==
    IF corpus = <<>> THEN <<>>
    ELSE Windows(n, Split(Head(corpus))) \o CorpusWindows(n, Tail(corpus))

\* text.split() of every text of the corpus, one after the other
RECURSIVE CorpusWords(_)
CorpusWords(corpus) ==
    IF corpus = <<>> THEN <<>>
    ELSE Split(Head(corpus)) \o CorpusWords(Tail(corpus))

\* self.ngrams[context][next_word] = 1: a window counted once however
\* often it occurs
IncrementsOnce(wins, context, next_word) ==
    IF \E i \in DOMAIN wins : wins[i] = <<context, next_word>> THEN 1 ELSE 0

\* how many times the loops run self.ngrams[context][next_word] += 1
Increments(wins, context, next_word) ==
    Cardinality({i \in DOMAIN wins : wins[i] = <<context, next_word>>})

\* self.ngrams, a defaultdict(Counter), after += 1 at every window
CountNGrams(ng, wins) ==
    LET contexts == {wins[i][1] : i \in DOMAIN wins}
        old(c)   == IF c \in DOMAIN ng THEN ng[c] ELSE <<>>
        nexts(c) == {wins[i][2] : i \in {j \in DOMAIN wins : wins[j][1] = c}}
    IN [c \in DOMAIN ng \cup contexts |->
           [w \in DOMAIN old(c) \cup nexts(c) |->
               (IF w \in DOMAIN old(c) THEN old(c)[w] ELSE 0)
                   + Increments(wins, c, w)]]

\* NGramLanguageModel.train: the model [ngrams, vocab, total_words] after the
\* loop over the corpus; a text without words adds nothing
train(model, n, corpus) ==
    LET words == CorpusWords(corpus)
    IN [ngrams      |-> CountNGrams(model.ngrams, CorpusWindows(n, corpus)),
        vocab       |-> model.vocab \cup Range(words),
        total_words |-> model.total_words + Len(words)]

\* sum(self.ngrams[context_tuple].values())
RECURSIVE SumCounts(_)
SumCounts(counter) ==
    IF DOMAIN counter = {} THEN 0
    ELSE LET w == CHOOSE w \in DOMAIN counter : TRUE
         IN counter[w] + SumCounts([v \in DOMAIN counter \ {w} |-> counter[v]])

\* an unseen n-gram given probability 0
UnsmoothedFallback == <<0, 1>>

\* 1.0 / (len(self.vocab) + 1) if self.vocab else 1e-6, as a fraction
SmoothedFallback ==
    IF vocab # {} THEN <<1, Cardinality(vocab) + 1>> ELSE <<1, 1000000>>

\* [""] * (n - 1 - len(context)) + context when the context is short
PadContext(context, n) ==
    IF Len(context) < n - 1
    THEN [k \in 1..(n - 1 - Len(context)) |-> <<>>] \o context
    ELSE context

\* NGramLanguageModel.probability, as the fraction <<numerator, denominator>>
probability(word, context) ==
    LET context_tuple == SliceSuffix(PadContext(context, ngram_n), ngram_n - 1)
    IN IF context_tuple \in DOMAIN ngrams /\ word \in DOMAIN ngrams[context_tuple]
       THEN <<ngrams[context_tuple][word], SumCounts(ngrams[context_tuple])>>
       ELSE SmoothedFallback

(***************************************************************************)
(* TransformerDiacriticRestorer (no transformer loaded) and                *)
(* ContextAwareCorrector                                                   *)
(***************************************************************************)
\* self.diacritic_map: <<base, variants>>
DiacriticMap ==
    { <<97, <<97, 224, 225, 257>>>>,
      <<101, <<101, 232, 233, 275>>>>,
      <<105, <<105, 236, 237, 299>>>>,
      <<111, <<111, 242, 243, 333>>>>,
      <<117, <<117, 249, 250, 363>>>>,
      <<115, <<115, 7779>>>>,
      <<69, <<69, 7864>>>>,
      <<79, <<79, 7884>>>> }

\* self.reverse_diacritic_map: the characters that have an entry
InReverseMap(c) == \E e \in DiacriticMap : c \in Range(e[2])

\* self.reverse_diacritic_map.get(char, char); a variant listed under two
\* bases keeps the base written last, and no variant is listed twice
ReverseMapGet(c) ==
    IF InReverseMap(c) THEN (CHOOSE e \in DiacriticMap : c \in Range(e[2]))[1] ELSE c

\* TransformerDiacriticRestorer.strip_diacritics
restorer_strip_diacritics(text) == [i \in DOMAIN text |-> ReverseMapGet(text[i])]

\* common_patterns: <<base form, form with diacritics>>
CommonPatterns ==
    { <<<<105, 108, 101>>, <<105, 108, 233>>>>,
      <<<<111, 109, 111>>, <<7885, 109, 7885>>>>,
      <<<<105, 115, 101>>, <<105, 7779, 7865, 769>>>>,
      <<<<102, 101>>, <<102, 7865, 769>>>>,
      <<<<107, 97>>, <<107, 224>>>>,
      <<<<107, 97, 119, 101>>, <<107, 224, 119, 233>>>>,
      <<<<121, 111, 114, 117, 98, 97>>, <<89, 111, 114, 249, 98, 225>>>>,
      <<<<98, 97, 98, 97>>, <<98, 224, 98, 225>>>>,
      <<<<105, 121, 97>>, <<236, 121, 225>>>> }

\* TransformerDiacriticRestorer.restore_diacritics_word
restore_diacritics_word(word, context) ==
    LET base == IF ~\E i \in DOMAIN word : InReverseMap(word[i])
                THEN restorer_strip_diacritics(word)
                ELSE word
        base_norm == Lower(base)
    IN IF \E e \in CommonPatterns : e[1] = base_norm
       THEN (CHOOSE e \in CommonPatterns : e[1] = base_norm)[2]
       ELSE word

\* words[start:end] around position i (counted from 1), joined by spaces
RestoreContext(words, i) ==
    JoinSpace(SubSeq(words, Max2(1, i - 2), Min2(Len(words), i + 2)))

\* ContextAwareCorrector.restore_sentence_diacritics
restore_sentence_diacritics(sentence) ==
    LET words == Split(sentence)
    IN JoinSpace([i \in DOMAIN words |-> restore_diacritics_word(words[i], RestoreContext(words, i))])

\* the corpus the n-gram model is trained on when there is no corpus file
DefaultCorpus ==
    << <<109, 111, 32, 102, 7865, 769, 32, 107, 224, 119, 233, 32, 110, 237, 32, 105, 108, 233, 32, 7865, 768, 107, 7885, 769>>,
       <<224, 119, 7885, 110, 32, 7885, 109, 7885, 32, 105, 108, 233, 32, 107, 224, 119, 233, 32, 108, 7885, 32, 115, 237, 32, 105, 108, 233, 32, 7865, 768, 107, 7885, 769>>,
       <<98, 224, 98, 225, 32, 224, 116, 105, 32, 236, 121, 225, 32, 114, 224, 119, 233, 32, 102, 250, 110, 32, 224, 119, 7885, 110, 32, 7885, 109, 7885, 32, 119, 7885, 110>>,
       <<111, 119, 243, 32, 109, 105, 32, 100, 249, 110, 32, 108, 225, 116, 105, 32, 114, 237, 32, 105, 7779, 7865, 769, 32, 116, 117, 110, 116, 117, 110>>,
       <<105, 108, 233, 32, 110, 225, 224, 32, 116, 243, 98, 105, 32, 106, 249, 108, 7885>>,
       <<7885, 109, 7885, 32, 110, 225, 224, 32, 100, 225, 114, 97, 32, 112, 250, 112, 7885, 768>>,
       <<236, 119, 233, 32, 109, 105, 32, 119, 224, 32, 110, 237, 32, 105, 108, 233>>,
       <<98, 225, 119, 111, 32, 110, 105, 32, 111, 32, 7779, 101, 32, 119, 224, 32, 108, 243, 110, 236, 237>>,
       <<105, 7779, 7865, 769, 32, 121, 237, 110, 32, 100, 249, 110, 32, 111, 44, 32, 7865, 32, 106, 7865, 769, 32, 107, 237, 32, 110, 32, 114, 237, 32, 105>>,
       <<97, 32, 100, 250, 112, 7865, 769, 32, 111, 32, 102, 250, 110, 32, 236, 114, 224, 110, 108, 7885, 769, 119, 7885, 769, 32, 121, 237, 110>> >>

\* self.lexicon[w] = True on an insertion-ordered dict: its keys in order
RECURSIVE DictKeysFrom(_, _, _)
DictKeysFrom(words, i, keys) ==
    IF i > Len(words) THEN keys
    ELSE DictKeysFrom(words, i + 1,
                      IF words[i] \in Range(keys) THEN keys ELSE Append(keys, words[i]))

NotComment(w) == w # <<>> /\ w[1] # 35

\* ContextAwareCorrector._load_lexicon: blank lines and lines that start
\* with '#' are skipped; an unreadable file leaves the lexicon empty
ml_load_lexicon(file) ==
    IF file.exists
    THEN DictKeysFrom(SelectSeq([i \in DOMAIN file.lines |-> Strip(file.lines[i])], NotComment), 1, <<>>)
    ELSE <<>>

\* the lines of a text file: the text cut at every line feed
RECURSIVE LinesFrom(_, _, _)
LinesFrom(text, i, cur) ==
    IF i > Len(text) THEN (IF cur = <<>> THEN <<>> ELSE <<cur>>)
    ELSE IF text[i] = 10 THEN <<cur>> \o LinesFrom(text, i + 1, <<>>)
    ELSE LinesFrom(text, i + 1, Append(cur, text[i]))

\* the corpus of ContextAwareCorrector._train_ngram_model
TrainingCorpus(corpus) ==
    IF corpus.exists
    THEN LET lines == SelectSeq(LinesFrom(corpus.text, 1, <<>>), NonBlank)
         IN [i \in DOMAIN lines |-> Strip(lines[i])]
    ELSE DefaultCorpus

(***************************************************************************)
(* YorubaSpellingCorrector.suggest_corrections                             *)
(***************************************************************************)
\* a in b, for strings
IsSubstring(a, b) ==
    \E i \in 0..(Len(b) - Len(a)) : SubSeq(b, i + 1, i + Len(a)) = a

\* abs() left out of the length filter
AbsNot(x) == x

Abs(x) == IF x < 0 THEN -x ELSE x

\* the variants of the normalized key, or <<>> when it is no key
IndexGet(key) ==
    IF \E i \in DOMAIN index : index[i].key = key
    THEN (CHOOSE e \in Range(index) : e.key = key).originals
    ELSE <<>>

\* the loop of the fallback filter over self.index.items()
RECURSIVE FallbackSuggestions(_, _, _)
FallbackSuggestions(normalized_input, i, suggestions) ==
    IF i > Len(index) THEN suggestions
    ELSE LET key == index[i].key
             originals == index[i].originals
         IN FallbackSuggestions(normalized_input, i + 1,
                IF Abs(Len(key) - Len(normalized_input)) > 3 THEN suggestions
                ELSE IF \/ IsSubstring(normalized_input, key)
                        \/ IsSubstring(key, normalized_input)
                        \/ SlicePrefix(key, 2) = SlicePrefix(normalized_input, 2)
                     THEN suggestions \o [k \in DOMAIN originals |-> <<originals[k], <<50, 1>>>>]
                     ELSE suggestions)

\* rapidfuzz.process.extract(..., scorer=fuzz.WRatio, limit, score_cutoff):
\* the keys whose score reaches the cutoff, best first, at most limit.  The
\* scores are the library's: wratio gives one for every key.
Extract(wratio, limit, score_cutoff) ==
    LET scored == [i \in DOMAIN index |-> <<index[i].key, <<wratio[index[i].key], 1>>>>]
        kept   == SelectSeq(scored, LAMBDA m : m[2][1] >= score_cutoff)
    IN SlicePrefix(SortDescending(kept), limit)

\* the loop over the matches and their originals, with the seen set
RECURSIVE ExpandMatches(_, _, _, _)
ExpandMatches(matches, i, k, suggestions) ==
    IF i > Len(matches) THEN suggestions
    ELSE LET originals == IndexGet(matches[i][1])
         IN IF k > Len(originals) THEN ExpandMatches(matches, i + 1, 1, suggestions)
            ELSE ExpandMatches(matches, i, k + 1,
                     IF \E j \in DOMAIN suggestions : suggestions[j][1] = originals[k]
                     THEN suggestions
                     ELSE Append(suggestions, <<originals[k], matches[i][2]>>))

\* similarity_threshold of suggest_corrections when the caller gives none
DefaultSimilarityThreshold == 70

\* YorubaSpellingCorrector.suggest_corrections: (word, score) pairs, the
\* score as a fraction <<numerator, denominator>>
base_suggest_corrections(input_word, max_suggestions, similarity_threshold, wratio) ==
    IF is_correct(input_word) THEN << <<input_word, <<100, 1>>>> >>
    ELSE LET normalized_input == strip_diacritics(input_word)
             variants == IndexGet(normalized_input)
         IN IF variants # <<>>
            THEN SlicePrefix([k \in DOMAIN variants |-> <<variants[k], <<95, 1>>>>], max_suggestions)
            ELSE IF rapidfuzz_available
            THEN SlicePrefix(
                     SortDescending(
                         ExpandMatches(Extract(wratio, max_suggestions * 2, similarity_threshold),
                                       1, 1, <<>>)),
                     max_suggestions)
            ELSE SlicePrefix(FallbackSuggestions(normalized_input, 1, <<>>), max_suggestions)

(***************************************************************************)
(* YorubaSpellingCorrector.correct_text (the fast path)                    *)
(***************************************************************************)
\* candidate_keys = list(self.index.keys())
IndexKeys == {index[i].key : i \in DOMAIN index}

\* re.findall(r'\b\w+\b|[^\w\s]', text): the maximal runs of \w characters
\* and every other character that is not white space, in text order
RECURSIVE TokenizeFrom(_, _, _)
TokenizeFrom(s, i, cur) ==
    IF i > Len(s) THEN (IF cur = <<>> THEN <<>> ELSE <<cur>>)
    ELSE IF IsWordChar(s[i]) THEN TokenizeFrom(s, i + 1, Append(cur, s[i]))
    ELSE (IF cur = <<>> THEN <<>> ELSE <<cur>>)
             \o (IF IsSpace(s[i]) THEN <<>> ELSE << <<s[i]>> >>)
             \o TokenizeFrom(s, i + 1, <<>>)

Tokenize(text) == TokenizeFrom(text, 1, <<>>)

\* the scores the similarity library gives the keys for one normalized
\* input; wratio maps the inputs it is asked about to their scores
ScoresFor(wratio, normalized_input) ==
    IF normalized_input \in DOMAIN wratio THEN wratio[normalized_input]
    ELSE [k \in IndexKeys |-> 0]

\* the suggestion dropped: every token is kept as it is
CorrectTokenNot(token, wratio) == token

\* the body of the loop over the tokens: what is appended for one token
CorrectToken(token, wratio) ==
    IF IsWordChar(token[1]) /\ ~is_correct(token)
    THEN LET suggestions ==
                 base_suggest_corrections(token, 1, DefaultSimilarityThreshold,
                                          ScoresFor(wratio, strip_diacritics(token)))
         IN IF suggestions # <<>> THEN suggestions[1][1] ELSE token
    ELSE token

\* ''.join(pieces)
RECURSIVE Concat(_)
Concat(pieces) == IF pieces = <<>> THEN <<>> ELSE Head(pieces) \o Concat(Tail(pieces))

\* YorubaSpellingCorrector.correct_text
base_correct_text(text, wratio) ==
    LET tokens == Tokenize(text)
    IN Concat([i \in DOMAIN tokens |-> CorrectToken(tokens[i], wratio)])

(***************************************************************************)
(* LexiconIntegratedCorrector                                              *)
(***************************************************************************)
NotSpaceOrHyphen(c) == c # 32 /\ c # 45

\* LexiconIntegratedCorrector._normalize_phrase_key
_normalize_phrase_key(phrase) == SelectSeq(strip_diacritics(phrase), NotSpaceOrHyphen)

\* a mapping that keeps the first entry of a key
build_normalized_mapping_first(words) ==
    [key \in {_normalize_phrase_key(words[i]) : i \in DOMAIN words} |->
        words[CHOOSE i \in DOMAIN words :
                 /\ _normalize_phrase_key(words[i]) = key
                 /\ \A j \in DOMAIN words : _normalize_phrase_key(words[j]) = key => i <= j]]

\* {self._normalize_phrase_key(k): k for k in self.base.lexicon}: of the
\* entries with the same key the last one stays
build_normalized_mapping(words) ==
    [key \in {_normalize_phrase_key(words[i]) : i \in DOMAIN words} |->
        words[CHOOSE i \in DOMAIN words :
                 /\ _normalize_phrase_key(words[i]) = key
                 /\ \A j \in DOMAIN words : j > i => _normalize_phrase_key(words[j]) # key]]

\* the constructions of the ML corrector that a behaviour follows
MaxConstructions == 2

\* the concurrent callers of one engine
Callers == {1, 2}

\* no caller is inside _ensure_ml_corrector
NoCallers == [c \in Callers |-> "idle"]

\* self._ml_corrector = None
NoMlCorrector == [present |-> FALSE, lexicon |-> <<>>]

\* a LexiconIntegratedCorrector built beside the engine, its ML corrector
\* not yet loaded (load_ml_on_init = False)
ConstructedIntegrated(file, rapidfuzz) ==
    /\ normalized_mapping = build_normalized_mapping(load_lexicon(file.lines))
    /\ ml_loaded = FALSE
    /\ ml_corrector = NoMlCorrector
    /\ rapidfuzz_available = rapidfuzz
    /\ ml_constructions = 0

\* LexiconIntegratedCorrector._ensure_ml_corrector.  fails: constructing the
\* ContextAwareCorrector raised; the handler leaves _ml_loaded False.
_ensure_ml_corrector(fails) ==
    IF ml_loaded THEN UNCHANGED <<ml_loaded, ml_corrector, ngramVars, ml_constructions>>
    ELSE IF fails
    THEN /\ ml_constructions < MaxConstructions
         /\ ml_constructions' = ml_constructions + 1
         /\ ml_corrector' = NoMlCorrector
         /\ ml_loaded' = FALSE
         /\ UNCHANGED ngramVars
    ELSE LET model == train([ngrams |-> <<>>, vocab |-> {}, total_words |-> 0],
                            3, TrainingCorpus(corpus_file))
         IN /\ ml_constructions < MaxConstructions
            /\ ml_constructions' = ml_constructions + 1
            /\ ml_corrector' = [present |-> TRUE, lexicon |-> ml_load_lexicon(lexicon_file)]
            /\ ml_loaded' = TRUE
            /\ ngram_n' = 3
            /\ ngrams' = model.ngrams
            /\ vocab' = model.vocab
            /\ total_words' = model.total_words

\* the candidates of a normalized-key hit: candidates[:max_suggestions] of
\* the mapped value, a string, so each candidate is a one-character string;
\* with confidence 0.9 - i * 0.1 (i counted from 0)
NormalizedCandidates(candidates, max_suggestions) ==
    LET kept == SlicePrefix(candidates, max_suggestions)
    IN [i \in DOMAIN kept |-> << <<kept[i]>>, "Normalized match", <<10 - i, 10>>>>]

\* the base suggestions with their score turned into a confidence
BaseCandidates(base_sugg) ==
    [i \in DOMAIN base_sugg |->
        <<base_sugg[i][1], "Base suggestion", <<base_sugg[i][2][1], 100 * base_sugg[i][2][2]>>>>]

(***************************************************************************)
(* ContextAwareCorrector.correct_text_with_ml                              *)
(***************************************************************************)
\* the ContextAwareCorrector an engine holds: its lexicon and the fields of
\* its n-gram model
MlCorrector ==
    [lexicon |-> ml_corrector.lexicon, n |-> ngram_n, ngrams |-> ngrams, vocab |-> vocab]

\* NGramLanguageModel.probability of the n-gram model of m
ModelProbability(m, word, context) ==
    LET context_tuple == SliceSuffix(PadContext(context, m.n), m.n - 1)
    IN IF context_tuple \in DOMAIN m.ngrams /\ word \in DOMAIN m.ngrams[context_tuple]
       THEN <<m.ngrams[context_tuple][word], SumCounts(m.ngrams[context_tuple])>>
       ELSE IF m.vocab # {} THEN <<1, Cardinality(m.vocab) + 1>> ELSE <<1, 1000000>>

\* NGramLanguageModel.predict_next_word from the k-th candidate on: a
\* candidate replaces the best one only when its probability is greater
RECURSIVE PredictFrom(_, _, _, _, _)
PredictFrom(m, context, candidates, k, best_word) ==
    IF k > Len(candidates) THEN best_word
    ELSE PredictFrom(m, context, candidates, k + 1,
                     IF ~ScoreGE(ModelProbability(m, best_word, context),
                                 ModelProbability(m, candidates[k], context))
                     THEN candidates[k]
                     ELSE best_word)

\* NGramLanguageModel.predict_next_word
predict_next_word(m, context, candidates) ==
    IF candidates = <<>> THEN <<>>
    ELSE PredictFrom(m, context, candidates, 2, candidates[1])

\* the word appended for words[i] by the loop of correct_text_with_ml
MlCorrectWord(m, words, i) ==
    LET w == words[i]
        normalized == Lower(restorer_strip_diacritics(w))
        candidates == SelectSeq(m.lexicon,
                          LAMBDA lex : Lower(restorer_strip_diacritics(lex)) = normalized)
        best == predict_next_word(m, SubSeq(words, Max2(1, i - 2), i - 1), candidates)
    IN IF w \in Range(m.lexicon) THEN w
       ELSE IF candidates # <<>>
       THEN (IF best # <<>> THEN best ELSE candidates[1])
       ELSE w

\* ContextAwareCorrector.correct_text_with_ml of the corrector m
correct_text_with_ml(m, text) ==
    LET words == Split(restore_sentence_diacritics(text))
    IN JoinSpace([i \in DOMAIN words |-> MlCorrectWord(m, words, i)])

(***************************************************************************)
(* LexiconIntegratedCorrector._correct_compound_phrases and correct_text   *)
(***************************************************************************)
\* the class [\s-] of the patterns
IsSeparator(c) == IsSpace(c) \/ c = 45

\* re.split(r'[\s-]+', phrase): the pieces between the runs of separators,
\* an empty piece before a leading run and after a trailing one
RECURSIVE ReSplitFrom(_, _, _)
ReSplitFrom(s, i, cur) ==
    IF i > Len(s) THEN <<cur>>
    ELSE IF IsSeparator(s[i])
         THEN (IF i > 1 /\ IsSeparator(s[i - 1])
               THEN ReSplitFrom(s, i + 1, cur)
               ELSE <<cur>> \o ReSplitFrom(s, i + 1, <<>>))
         ELSE ReSplitFrom(s, i + 1, Append(cur, s[i]))

ReSplit(phrase) == ReSplitFrom(phrase, 1, <<>>)

\* \b before position p of text (p = Len(text) + 1: at the end)
WordAt(text, p) == p \in DOMAIN text /\ IsWordChar(text[p])

WordBoundary(text, p) == WordAt(text, p - 1) # WordAt(text, p)

\* re.escape(part) under re.IGNORECASE, matched at position p
LiteralAt(part, text, p) ==
    /\ p + Len(part) - 1 <= Len(text)
    /\ \A k \in DOMAIN part : LowerChar(text[p + k - 1]) = LowerChar(part[k])

\* [\s-]+ at position p: the length of the run it takes
RECURSIVE SeparatorRun(_, _)
SeparatorRun(text, p) ==
    IF p \in DOMAIN text /\ IsSeparator(text[p]) THEN 1 + SeparatorRun(text, p + 1) ELSE 0

\* the parts from the k-th on, joined by [\s-]+ and closed by \b, matched at
\* p: the position after the match, 0 when there is none.  A part begins
\* with no separator, so no shorter run lets the next part match.
RECURSIVE MatchParts(_, _, _, _)
MatchParts(parts, k, text, p) ==
    IF ~LiteralAt(parts[k], text, p) THEN 0
    ELSE LET q == p + Len(parts[k])
         IN IF k = Len(parts)
            THEN (IF WordBoundary(text, q) THEN q ELSE 0)
            ELSE LET run == SeparatorRun(text, q)
                 IN IF run = 0 THEN 0 ELSE MatchParts(parts, k + 1, text, q + run)

\* r'\b' + pattern + r'\b' matched at position p
MatchEnd(parts, text, p) ==
    IF WordBoundary(text, p) THEN MatchParts(parts, 1, text, p) ELSE 0

\* the escapes of a replacement template that stand for one character:
\* \a \b \f \n \r \t \v and \\
TemplateEscapes ==
    {<<97, 7>>, <<98, 8>>, <<102, 12>>, <<110, 10>>, <<114, 13>>, <<116, 9>>,
     <<118, 11>>, <<92, 92>>}

IsAsciiLetter(c) == c \in 65..90 \/ c \in 97..122

\* re.sub parses the replacement as a template before it looks for a match:
\* [ok, text], ok FALSE when the parse raises re.error.  The patterns have
\* no group, so \1..\9 is an invalid group reference; \g<..> and the octal
\* escapes of several digits need code points the lexicons here do not have.
RECURSIVE ExpandTemplate(_)
ExpandTemplate(t) ==
    IF t = <<>> THEN [ok |-> TRUE, text |-> <<>>]
    ELSE IF t[1] # 92
    THEN LET rest == ExpandTemplate(Tail(t))
         IN [ok |-> rest.ok, text |-> <<t[1]>> \o rest.text]
    ELSE IF Len(t) = 1 THEN [ok |-> FALSE, text |-> <<>>]
    ELSE LET c == t[2]
             rest == ExpandTemplate(SubSeq(t, 3, Len(t)))
         IN IF \E e \in TemplateEscapes : e[1] = c
            THEN [ok |-> rest.ok,
                  text |-> <<(CHOOSE e \in TemplateEscapes : e[1] = c)[2]>> \o rest.text]
            ELSE IF IsAsciiLetter(c) \/ c \in 49..57
            THEN [ok |-> FALSE, text |-> <<>>]
            ELSE IF c = 48
            THEN [ok |-> rest.ok, text |-> <<0>> \o rest.text]
            ELSE [ok |-> rest.ok, text |-> <<92, c>> \o rest.text]

\* re.sub from position p on: every match, left to right, gives way to the
\* replacement
RECURSIVE SubFrom(_, _, _, _)
SubFrom(parts, replacement, text, p) ==
    IF p > Len(text) THEN <<>>
    ELSE LET e == MatchEnd(parts, text, p)
         IN IF e > p
            THEN replacement \o SubFrom(parts, replacement, text, e)
            ELSE <<text[p]>> \o SubFrom(parts, replacement, text, p + 1)

\* str.replace of one character by another, and by nothing
ReplaceChar(s, a, b) == [i \in DOMAIN s |-> IF s[i] = a THEN b ELSE s[i]]

RemoveChar(s, a) == SelectSeq(s, LAMBDA c : c # a)

\* variants: the phrase, with hyphens for spaces, with spaces for hyphens,
\* without spaces, without hyphens
PhraseVariants(phrase) ==
    <<phrase, ReplaceChar(phrase, 32, 45), ReplaceChar(phrase, 45, 32),
      RemoveChar(phrase, 32), RemoveChar(phrase, 45)>>

\* the scores of process.extract where rapidfuzz is not installed: none is used
NoLibraryScores == [k \in IndexKeys |-> 0]

\* the loop over the variants from the v-th on: [found, word], the
\* replacement of the first variant that has one
RECURSIVE ReplacementFrom(_, _)
ReplacementFrom(variants, v) ==
    IF v > Len(variants) THEN [found |-> FALSE, word |-> <<>>]
    ELSE LET key == _normalize_phrase_key(variants[v])
         IN IF key \in DOMAIN normalized_mapping
            THEN [found |-> TRUE, word |-> normalized_mapping[key]]
            ELSE LET sugg == base_suggest_corrections(variants[v], 1,
                                 DefaultSimilarityThreshold, NoLibraryScores)
                 IN IF sugg # <<>>
                    THEN [found |-> TRUE, word |-> sugg[1][1]]
                    ELSE ReplacementFrom(variants, v + 1)

\* the phrases the two loops visit, as <<first word, number of words>>: the
\* longest first, from left to right
RECURSIVE PhraseSpans(_, _)
PhraseSpans(len, n) ==
    IF n = 0 THEN <<>>
    ELSE [i \in 1..(len - n + 1) |-> <<i, n>>] \o PhraseSpans(len, n - 1)

\* the loops of _correct_compound_phrases from the k-th phrase on:
\* [ok, text], ok FALSE when re.sub raised
RECURSIVE CompoundFrom(_, _, _, _)
CompoundFrom(words, spans, k, corrected_text) ==
    IF k > Len(spans) THEN [ok |-> TRUE, text |-> corrected_text]
    ELSE LET phrase == JoinSpace(SubSeq(words, spans[k][1], spans[k][1] + spans[k][2] - 1))
             found == ReplacementFrom(PhraseVariants(phrase), 1)
             template == ExpandTemplate(found.word)
         IN IF ~found.found THEN CompoundFrom(words, spans, k + 1, corrected_text)
            ELSE IF ~template.ok THEN [ok |-> FALSE, text |-> corrected_text]
            ELSE CompoundFrom(words, spans, k + 1,
                              SubFrom(ReSplit(phrase), template.text, corrected_text, 1))

\* LexiconIntegratedCorrector._correct_compound_phrases
_correct_compound_phrases(text) ==
    LET words == Split(text)
    IN CompoundFrom(words, PhraseSpans(Len(words), Min2(4, Len(words))), 1, text)

\* LexiconIntegratedCorrector.correct_text(text, use_ml=False): the two
\* passes over the compound phrases, [ok, text]
correct_text_without_ml(text) ==
    LET first == _correct_compound_phrases(text)
    IN IF first.ok THEN _correct_compound_phrases(first.text) ELSE first

(***************************************************************************)
(* Bounds of the model                                                     *)
(***************************************************************************)
MaxStrLen == 3

MaxLevLen == 3

\* a, A, a-grave, A-grave, combining grave, e-dot-below, space
NormalizeAlphabet == {97, 65, 224, 192, 768, 7865, 32}

\* a, o, a-grave
LevAlphabet == {97, 111, 224}

MaxLexLines == 2

MaxMatches == 3

MaxCandidates == 2

MaxTextLen == 3

\* the words lexicon files are written with: a, a-grave, A, o, a-grave o
LexiconWords == {<<97>>, <<224>>, <<65>>, <<111>>, <<224, 111>>}

\* the lines of a lexicon file: a word, a word between spaces, or a line of
\* white space
LineChoices == (LexiconWords \ {<<224>>}) \cup {<<32>>, <<32, 224, 32>>}

\* the orders a file can list the elements of S in
Orderings(S) ==
    {f \in [1..Cardinality(S) -> S] : \A i, j \in 1..Cardinality(S) : i # j => f[i] # f[j]}

\* up to MaxLexLines lines, or the three lines a, o, a-grave in any order
LexiconFiles ==
    {[exists |-> TRUE, lines |-> l] :
        l \in StringsUpTo(LineChoices, MaxLexLines)
                 \cup Orderings({<<97>>, <<111>>, <<32, 224, 32>>})}

\* no corpus, or a corpus text: "a-grave a a-grave", "A o o", "a-grave o-a"
CorpusFiles ==
    { [exists |-> FALSE, text |-> <<>>],
      [exists |-> TRUE, text |-> <<224, 32, 97, 32, 224>>],
      [exists |-> TRUE, text |-> <<65, 32, 111, 32, 111>>],
      [exists |-> TRUE, text |-> <<224, 111, 45, 97>>] }

\* the candidates handed to disambiguate_tonal_variants: a, a-grave, o
CandidateWords == {<<97>>, <<224>>, <<111>>}

\* the words the engine is asked about: the lexicon words, "oo" and "O"
QueryWords == LexiconWords \cup {<<111, 111>>, <<79>>}

\* a-grave, o, space, tab
TextAlphabet == {224, 111, 32, 9}

\* the characters of the texts of the fast path: a-grave, o, space,
\* combining grave
FastAlphabet == {224, 111, 32, 768}

\* the lexicon files of the fast path: lines a, o, a-grave o, a-grave
\* between spaces
FastLexiconFiles ==
    {[exists |-> TRUE, lines |-> l] :
        l \in StringsUpTo({<<97>>, <<111>>, <<224, 111>>, <<32, 224, 32>>}, MaxLexLines)}

MaxSentenceWords == 3

MaxTrainedWords == 4

\* the orders an n-gram model is built with (3 is the default)
NGramOrders == {1, 2, 3}

\* the words of the training sentences: a, a-grave
NGramWords == {<<97>>, <<224>>}

\* a training corpus: one sentence with its words a space apart, or the two
\* sentences "a  a-grave" (two spaces) and "a a-grave a"
Corpora ==
    {<<JoinSpace(ws)>> : ws \in StringsUpTo(NGramWords, MaxSentenceWords)}
        \cup {<< <<97, 32, 32, 224>>, <<97, 32, 224, 32, 97>> >>}

\* the words whose probability is asked: the training words and "o"
ProbabilityWords == NGramWords \cup {<<111>>}

MaxScenarioTokens == 3

MaxSuggestions == 3

\* the lexicon words of the scenarios
Word_mo == <<109, 111>>

Word_fe_marked == <<102, 7865, 769>>

Word_kawe_marked == <<107, 224, 119, 233>>

Word_awon_marked == <<224, 119, 7885, 110>>

Word_omo_marked == <<7885, 109, 7885>>

Word_ile_marked == <<105, 108, 233>>

Word_awa_marked == <<224, 119, 97>>

\* iranlowo with its marks, the marks of i and a written as combining
\* characters: twelve code points
Word_iranlowo_marked == <<105, 768, 114, 97, 768, 110, 108, 7885, 769, 119, 7885, 769>>

Word_iranlowo == <<105, 114, 97, 110, 108, 111, 119, 111>>

\* the unmarked tokens of the scenario inputs: mo fe ka iwe / awa omo ile
Sentence_MoFeKaIwe == <<<<109, 111>>, <<102, 101>>, <<107, 97>>, <<105, 119, 101>>>>

Sentence_AwaOmoIle == <<<<97, 119, 97>>, <<111, 109, 111>>, <<105, 108, 101>>>>

Tokens_MoFeKaIwe == Range(Sentence_MoFeKaIwe)

Tokens_AwaOmoIle == Range(Sentence_AwaOmoIle)

Lexicon_MoFeKawe == {Word_mo, Word_fe_marked, Word_kawe_marked}

Lexicon_AwonOmoIle == {Word_awon_marked, Word_omo_marked, Word_ile_marked}

\* the lexicon files of the scenarios: mo, fe, kawe as listed; awon, omo,
\* ile in any order, or followed by awa; or the single word omo with its
\* dots; or the single word iranlowo with its marks
ScenarioLexiconFiles ==
    {[exists |-> TRUE, lines |-> l] :
        l \in {<<Word_mo, Word_fe_marked, Word_kawe_marked>>}
                 \cup Orderings(Lexicon_AwonOmoIle)
                 \cup {<<Word_awon_marked, Word_omo_marked, Word_ile_marked, Word_awa_marked>>}
                 \cup {<<Word_omo_marked>>}
                 \cup {<<Word_iranlowo_marked>>}}

\* no corpus, or one of the first two sentences of the default corpus
ScenarioCorpusFiles ==
    { [exists |-> FALSE, text |-> <<>>],
      [exists |-> TRUE, text |-> DefaultCorpus[1]] }

\* the texts of a scenario: its sentence, and its tokens in any order up to
\* MaxScenarioTokens of them, a space apart
ScenarioTexts(sentence) ==
    {JoinSpace(ws) : ws \in StringsUpTo(Range(sentence), MaxScenarioTokens) \cup {sentence}}

\* the words suggestions are asked for: the scenario tokens, the marked
\* omo, " omo" with a space in front, "Omo", "ile-mo" and iranlowo
SuggestionWords ==
    Tokens_MoFeKaIwe \cup Tokens_AwaOmoIle
        \cup {Word_omo_marked, <<32, 111, 109, 111>>, <<79, 109, 111>>, <<105, 108, 101, 45, 109, 111>>,
              Word_iranlowo}

\* a caller that asks for many suggestions
ManySuggestions == 11

\* the values of max_suggestions
SuggestionLimits == {1, MaxSuggestions, ManySuggestions}

\* the scores the similarity library may give a key: under the threshold,
\* at the threshold, above it
ScoreChoices == {0, 70, 85}

(***************************************************************************)
(* SpecText: the pure string functions, called on every bounded string.    *)
(***************************************************************************)
NoEngine ==
    /\ lexicon_file = [exists |-> FALSE, lines |-> <<>>]
    /\ corpus_file = [exists |-> FALSE, text |-> <<>>]
    /\ lexicon = <<>>
    /\ index = <<>>
    /\ word_frequencies = <<>>
    /\ tonal_patterns = <<>>
    /\ normalized_lexicon = <<>>

\* no call is in progress: the caller is between two calls
Idle ==
    /\ op = "idle"
    /\ args = <<>>
    /\ ret = <<>>
    /\ raised = ""
    /\ pc = NoCallers

\* the caller takes the result of the call; the engine is left as it is
Return ==
    /\ op # "idle"
    /\ op' = "idle"
    /\ args' = <<>>
    /\ ret' = <<>>
    /\ raised' = ""
    /\ UNCHANGED <<fileVars, engineVars, ngramVars, liVars, loadVars>>

\* no n-gram model exists
NoNGramModel ==
    /\ ngram_n = 0
    /\ ngrams = <<>>
    /\ vocab = {}
    /\ total_words = 0

\* no LexiconIntegratedCorrector exists
NoIntegratedCorrector ==
    /\ normalized_mapping = <<>>
    /\ ml_loaded = FALSE
    /\ ml_corrector = NoMlCorrector
    /\ rapidfuzz_available = FALSE
    /\ ml_constructions = 0

InitText == NoEngine /\ NoNGramModel /\ NoIntegratedCorrector /\ Idle

StripDiacritics ==
    \E s \in StringsUpTo(NormalizeAlphabet, MaxStrLen) :
        /\ op = "idle"
        /\ op' = "strip_diacritics"
        /\ args' = <<s>>
        /\ ret' = strip_diacritics(s)
        /\ raised' = ""
        /\ UNCHANGED <<fileVars, engineVars, ngramVars, liVars, loadVars>>

LevenshteinDistance ==
    \E a \in StringsUpTo(LevAlphabet, MaxLevLen), b \in StringsUpTo(LevAlphabet, MaxLevLen) :
        /\ op = "idle"
        /\ op' = "_levenshtein_distance"
        /\ args' = <<a, b>>
        /\ ret' = _levenshtein_distance(a, b)
        /\ raised' = ""
        /\ UNCHANGED <<fileVars, engineVars, ngramVars, liVars, loadVars>>

NextText == StripDiacritics \/ LevenshteinDistance \/ Return

SpecText == InitText /\ [][NextText]_vars

(***************************************************************************)
(* Spec: an EnhancedYorubaSpellingCorrector built from a lexicon file and  *)
(* an optional corpus, and the calls made on it.                           *)
(***************************************************************************)
Init ==
    /\ \E file \in LexiconFiles, corpus \in CorpusFiles : Constructed(file, corpus)
    /\ NoNGramModel
    /\ NoIntegratedCorrector
    /\ Idle

IsCorrect ==
    \E w \in QueryWords :
        /\ op = "idle"
        /\ op' = "is_correct"
        /\ args' = <<w>>
        /\ ret' = is_correct(w)
        /\ raised' = ""
        /\ UNCHANGED <<fileVars, engineVars, ngramVars, liVars, loadVars>>

GetStats ==
    /\ op = "idle"
    /\ op' = "get_stats"
    /\ args' = <<>>
    /\ ret' = get_stats
    /\ raised' = ""
    /\ UNCHANGED <<fileVars, engineVars, ngramVars, liVars, loadVars>>

FindClosestMatches ==
    \E w \in QueryWords, max_matches \in -1..MaxMatches, max_distance \in 1..DefaultMaxDistance :
        /\ op = "idle"
        /\ op' = "find_closest_matches"
        /\ args' = <<w, max_matches, max_distance>>
        /\ ret' = find_closest_matches(w, max_matches, max_distance)
        /\ raised' = ""
        /\ UNCHANGED <<fileVars, engineVars, ngramVars, liVars, loadVars>>

DisambiguateTonalVariants ==
    \E matches \in StringsUpTo(CandidateWords, MaxCandidates), context \in {<<>>, <<97, 32, 224>>} :
        /\ op = "idle"
        /\ op' = "disambiguate_tonal_variants"
        /\ args' = <<matches, context>>
        /\ IF matches = <<>>
           THEN ret' = <<>> /\ raised' = "IndexError"
           ELSE ret' = disambiguate_tonal_variants(matches, context) /\ raised' = ""
        /\ UNCHANGED <<fileVars, engineVars, ngramVars, liVars, loadVars>>

\* a call that counts the words of the text it corrects into the
\* frequency table
CorrectTextWithContextLearning(texts) ==
    \E text \in texts :
        /\ op = "idle"
        /\ op' = "correct_text_with_context"
        /\ args' = <<text>>
        /\ ret' = correct_text_with_context(text)
        /\ raised' = ""
        /\ word_frequencies' = _load_word_frequencies([exists |-> TRUE, text |-> text])
        /\ UNCHANGED <<fileVars, lexicon, index, tonal_patterns, normalized_lexicon,
                       ngramVars, liVars, loadVars>>

CorrectTextWithContextOn(texts) ==
    \E text \in texts :
        /\ op = "idle"
        /\ op' = "correct_text_with_context"
        /\ args' = <<text>>
        /\ ret' = correct_text_with_context(text)
        /\ raised' = ""
        /\ UNCHANGED <<fileVars, engineVars, ngramVars, liVars, loadVars>>

CorrectTextWithContext == CorrectTextWithContextOn(StringsUpTo(TextAlphabet, MaxTextLen))

Next ==
    \/ IsCorrect
    \/ GetStats
    \/ FindClosestMatches
    \/ DisambiguateTonalVariants
    \/ Return

Spec == Init /\ [][Next]_vars

(***************************************************************************)
(* SpecContext: the same engines, corrected text by text.                  *)
(***************************************************************************)
NextContext == CorrectTextWithContext \/ Return

SpecContext == Init /\ [][NextContext]_vars

(***************************************************************************)
(* SpecFast: the engines with or without the similarity library, and the   *)
(* text corrected by the fast path.                                        *)
(***************************************************************************)
InitFast ==
    /\ \E file \in FastLexiconFiles : Constructed(file, [exists |-> FALSE, text |-> <<>>])
    /\ NoNGramModel
    /\ normalized_mapping = <<>>
    /\ ml_loaded = FALSE
    /\ ml_corrector = NoMlCorrector
    /\ rapidfuzz_available \in BOOLEAN
    /\ ml_constructions = 0
    /\ Idle

\* the normalized inputs the similarity library is asked about while the
\* text is corrected
LibraryInputs(text) ==
    IF rapidfuzz_available
    THEN {strip_diacritics(t) : t \in {u \in Range(Tokenize(text)) :
              /\ IsWordChar(u[1])
              /\ ~is_correct(u)
              /\ IndexGet(strip_diacritics(u)) = <<>>}}
    ELSE {}

\* YorubaSpellingCorrector.correct_text
CorrectText ==
    /\ op = "idle"
    /\ \E text \in StringsUpTo(FastAlphabet, MaxTextLen) :
           \E wratio \in [LibraryInputs(text) -> [IndexKeys -> ScoreChoices]] :
               /\ op' = "correct_text"
               /\ args' = <<text>>
               /\ ret' = base_correct_text(text, wratio)
               /\ raised' = ""
               /\ UNCHANGED <<fileVars, engineVars, ngramVars, liVars, loadVars>>

\* correct_text_with_context on the same texts
FastCorrectTextWithContext ==
    CorrectTextWithContextOn(StringsUpTo(FastAlphabet, MaxTextLen))

NextFast == CorrectText \/ FastCorrectTextWithContext \/ Return

SpecFast == InitFast /\ [][NextFast]_vars

(***************************************************************************)
(* SpecConstruct: a lexicon file that may be missing, and the constructors *)
(* of the four classes that take its path.  The variables hold the fields  *)
(* of the object constructed last.                                         *)
(***************************************************************************)
\* a path at which there is no readable file
MissingFile == [exists |-> FALSE, lines |-> <<>>]

InitConstruct ==
    /\ lexicon_file \in LexiconFiles \cup {MissingFile}
    /\ corpus_file \in CorpusFiles
    /\ lexicon = <<>>
    /\ index = <<>>
    /\ word_frequencies = <<>>
    /\ tonal_patterns = <<>>
    /\ normalized_lexicon = <<>>
    /\ NoNGramModel
    /\ NoIntegratedCorrector
    /\ Idle

\* open(filepath) of load_lexicon raised: the constructor raises, no object
\* is returned
ConstructionFails(class) ==
    /\ op' = class
    /\ args' = <<>>
    /\ ret' = FALSE
    /\ raised' = "FileNotFoundError"
    /\ lexicon' = <<>>
    /\ index' = <<>>
    /\ word_frequencies' = <<>>
    /\ tonal_patterns' = <<>>
    /\ normalized_lexicon' = <<>>
    /\ ngram_n' = 0
    /\ ngrams' = <<>>
    /\ vocab' = {}
    /\ total_words' = 0
    /\ normalized_mapping' = <<>>
    /\ ml_loaded' = FALSE
    /\ ml_corrector' = NoMlCorrector
    /\ UNCHANGED <<fileVars, rapidfuzz_available, loadVars>>

\* the constructor returned an object (ret: an object was returned)
ConstructionReturns(class) ==
    /\ op' = class
    /\ args' = <<>>
    /\ ret' = TRUE
    /\ raised' = ""
    /\ UNCHANGED <<fileVars, rapidfuzz_available, loadVars>>

\* YorubaSpellingCorrector(lexicon_path)
ConstructBase ==
    /\ op = "idle"
    /\ IF lexicon_file.exists
       THEN /\ ConstructionReturns("YorubaSpellingCorrector")
            /\ lexicon' = load_lexicon(lexicon_file.lines)
            /\ index' = build_index(load_lexicon(lexicon_file.lines))
            /\ word_frequencies' = <<>>
            /\ tonal_patterns' = <<>>
            /\ normalized_lexicon' = <<>>
            /\ ngram_n' = 0
            /\ ngrams' = <<>>
            /\ vocab' = {}
            /\ total_words' = 0
            /\ normalized_mapping' = <<>>
            /\ ml_loaded' = FALSE
            /\ ml_corrector' = NoMlCorrector
       ELSE ConstructionFails("YorubaSpellingCorrector")

\* EnhancedYorubaSpellingCorrector(lexicon_path, corpus_path)
ConstructEnhanced ==
    /\ op = "idle"
    /\ IF lexicon_file.exists
       THEN /\ ConstructionReturns("EnhancedYorubaSpellingCorrector")
            /\ lexicon' = load_lexicon(lexicon_file.lines)
            /\ index' = build_index(load_lexicon(lexicon_file.lines))
            /\ word_frequencies' = _load_word_frequencies(corpus_file)
            /\ tonal_patterns' = _learn_tonal_patterns(load_lexicon(lexicon_file.lines))
            /\ normalized_lexicon' = _create_normalized_lexicon(load_lexicon(lexicon_file.lines))
            /\ ngram_n' = 0
            /\ ngrams' = <<>>
            /\ vocab' = {}
            /\ total_words' = 0
            /\ normalized_mapping' = <<>>
            /\ ml_loaded' = FALSE
            /\ ml_corrector' = NoMlCorrector
       ELSE ConstructionFails("EnhancedYorubaSpellingCorrector")

\* LexiconIntegratedCorrector(lexicon_path, corpus_path): self.base is
\* built first, the ML corrector is left for later
ConstructIntegrated ==
    /\ op = "idle"
    /\ IF lexicon_file.exists
       THEN /\ ConstructionReturns("LexiconIntegratedCorrector")
            /\ lexicon' = load_lexicon(lexicon_file.lines)
            /\ index' = build_index(load_lexicon(lexicon_file.lines))
            /\ word_frequencies' = <<>>
            /\ tonal_patterns' = <<>>
            /\ normalized_lexicon' = <<>>
            /\ ngram_n' = 0
            /\ ngrams' = <<>>
            /\ vocab' = {}
            /\ total_words' = 0
            /\ normalized_mapping' = build_normalized_mapping(load_lexicon(lexicon_file.lines))
            /\ ml_loaded' = FALSE
            /\ ml_corrector' = NoMlCorrector
       ELSE ConstructionFails("LexiconIntegratedCorrector")

\* ContextAwareCorrector(lexicon_path, corpus_path): _load_lexicon catches
\* what open raises and the constructor goes on
ConstructContextAware ==
    /\ op = "idle"
    /\ ConstructionReturns("ContextAwareCorrector")
    /\ LET model == train([ngrams |-> <<>>, vocab |-> {}, total_words |-> 0],
                          3, TrainingCorpus(corpus_file))
       IN /\ ngram_n' = 3
          /\ ngrams' = model.ngrams
          /\ vocab' = model.vocab
          /\ total_words' = model.total_words
    /\ ml_corrector' = [present |-> TRUE, lexicon |-> ml_load_lexicon(lexicon_file)]
    /\ lexicon' = <<>>
    /\ index' = <<>>
    /\ word_frequencies' = <<>>
    /\ tonal_patterns' = <<>>
    /\ normalized_lexicon' = <<>>
    /\ normalized_mapping' = <<>>
    /\ ml_loaded' = FALSE

NextConstruct ==
    \/ ConstructBase
    \/ ConstructEnhanced
    \/ ConstructIntegrated
    \/ ConstructContextAware
    \/ Return

SpecConstruct == InitConstruct /\ [][NextConstruct]_vars

(***************************************************************************)
(* SpecNGram: an NGramLanguageModel, trained and queried.                  *)
(***************************************************************************)
InitNGram ==
    /\ NoEngine
    /\ ngram_n \in NGramOrders
    /\ ngrams = <<>>
    /\ vocab = {}
    /\ total_words = 0
    /\ NoIntegratedCorrector
    /\ Idle

NumWords(corpus) == Len(CorpusWords(corpus))

Train ==
    \E corpus \in Corpora :
        /\ op = "idle"
        /\ total_words + NumWords(corpus) <= MaxTrainedWords
        /\ LET model == train([ngrams |-> ngrams, vocab |-> vocab, total_words |-> total_words],
                              ngram_n, corpus)
           IN /\ ngrams' = model.ngrams
              /\ vocab' = model.vocab
              /\ total_words' = model.total_words
        /\ op' = "train"
        /\ args' = <<corpus>>
        /\ ret' = <<>>
        /\ raised' = ""
        /\ UNCHANGED <<fileVars, engineVars, ngram_n, liVars, loadVars>>

Probability ==
    \E word \in ProbabilityWords, context \in StringsUpTo(NGramWords, MaxSentenceWords) :
        /\ op = "idle"
        /\ op' = "probability"
        /\ args' = <<word, context>>
        /\ ret' = probability(word, context)
        /\ raised' = ""
        /\ UNCHANGED <<fileVars, engineVars, ngramVars, liVars, loadVars>>

NextNGram == Train \/ Probability \/ Return

SpecNGram == InitNGram /\ [][NextNGram]_vars

(***************************************************************************)
(* SpecScenario: the engine and a LexiconIntegratedCorrector built from    *)
(* the lexicon of a scenario, and the calls of the scenarios.              *)
(***************************************************************************)
InitScenario ==
    /\ \E file \in ScenarioLexiconFiles, corpus \in ScenarioCorpusFiles, rapidfuzz \in BOOLEAN :
          /\ Constructed(file, corpus)
          /\ ConstructedIntegrated(file, rapidfuzz)
    /\ NoNGramModel
    /\ Idle

\* correct_text_with_context on the texts of the scenario the lexicon is of
ScenarioCorrectText ==
    CorrectTextWithContextOn(
        IF Range(lexicon) = Lexicon_MoFeKawe
        THEN ScenarioTexts(Sentence_MoFeKaIwe)
        ELSE ScenarioTexts(Sentence_AwaOmoIle))

\* LexiconIntegratedCorrector.suggest_corrections
SuggestCorrections ==
    /\ op = "idle"
    /\ op' = "suggest_corrections"
    /\ raised' = ""
    /\ UNCHANGED <<fileVars, engineVars, normalized_mapping, rapidfuzz_available, pc>>
    /\ \/ /\ UNCHANGED <<ml_loaded, ml_corrector, ngramVars, ml_constructions>>
          /\ \E word \in SuggestionWords, max_suggestions \in SuggestionLimits :
                /\ is_correct(word) \/ strip_diacritics(word) \in DOMAIN normalized_mapping
                /\ args' = <<word, max_suggestions>>
                /\ ret' = IF is_correct(word)
                          THEN << <<word, "Exact match", <<1, 1>>>> >>
                          ELSE NormalizedCandidates(normalized_mapping[strip_diacritics(word)],
                                                    max_suggestions)
       \/ \E fails \in (IF ml_loaded THEN {FALSE} ELSE BOOLEAN) :
             /\ _ensure_ml_corrector(fails)
             /\ \E loaded \in {ml_loaded' /\ ml_corrector'.present},
                   keys \in {ml_corrector'.lexicon},
                   word \in SuggestionWords, max_suggestions \in SuggestionLimits :
                   /\ ~is_correct(word)
                   /\ strip_diacritics(word) \notin DOMAIN normalized_mapping
                   /\ args' = <<word, max_suggestions>>
                   /\ LET corrected == restore_sentence_diacritics(word)
                      IN IF loaded /\ corrected # word /\ corrected \in Range(keys)
                         THEN ret' = << <<corrected, "ML diacritic restoration", <<85, 100>>>> >>
                         ELSE \E wratio \in (IF rapidfuzz_available
                                             THEN [IndexKeys -> ScoreChoices]
                                             ELSE {[k \in IndexKeys |-> 0]}) :
                                  ret' = BaseCandidates(
                                             base_suggest_corrections(word, max_suggestions,
                                                 DefaultSimilarityThreshold, wratio))

NextScenario == ScenarioCorrectText \/ SuggestCorrections \/ Return

SpecScenario == InitScenario /\ [][NextScenario]_vars

(***************************************************************************)
(* SpecIntegrated: the engines built on one lexicon file where rapidfuzz   *)
(* is not installed, and every correction and query call on them.          *)
(***************************************************************************)
\* lexicon files: o; a-grave; ao; a-o; o\o; ka-grave
IntegratedLexiconFiles ==
    {[exists |-> TRUE, lines |-> l] :
        l \in {<< <<111>> >>, << <<224>> >>, << <<97, 111>> >>, << <<97, 45, 111>> >>,
               << <<111, 92, 111>> >>, << <<107, 224>> >>}}

\* the code points of the texts: a, o, space
IntegratedAlphabet == {97, 111, 32}

\* the texts corrected: every short text, and "a-o", "o-", "ka", "Ka o"
IntegratedTexts ==
    StringsUpTo(IntegratedAlphabet, MaxTextLen)
        \cup {<<97, 45, 111>>, <<111, 45>>, <<107, 97>>, <<75, 97, 32, 111>>}

\* no corpus file (the default corpus is used), and one of three words
IntegratedCorpusFiles ==
    { [exists |-> FALSE, text |-> <<>>],
      [exists |-> TRUE, text |-> <<224, 32, 97, 32, 224>>] }

InitIntegrated ==
    /\ \E file \in IntegratedLexiconFiles, corpus \in IntegratedCorpusFiles :
          /\ Constructed(file, corpus)
          /\ ConstructedIntegrated(file, FALSE)
    /\ NoNGramModel
    /\ Idle

\* LexiconIntegratedCorrector.correct_text(text, use_ml).  fails: the
\* ContextAwareCorrector constructor raised; throws: correct_text_with_ml
\* raised, which the except clause of the call absorbs.  re.error raised by
\* re.sub in _correct_compound_phrases is caught nowhere.
IntegratedCorrectText ==
    /\ op = "idle"
    /\ ~rapidfuzz_available
    /\ op' = "correct_text"
    /\ UNCHANGED <<fileVars, engineVars, normalized_mapping, rapidfuzz_available, pc>>
    /\ \/ /\ UNCHANGED <<ml_loaded, ml_corrector, ngramVars, ml_constructions>>
          /\ \E text \in IntegratedTexts, use_ml \in BOOLEAN :
                LET first == _correct_compound_phrases(text)
                    last == _correct_compound_phrases(first.text)
                IN /\ ~first.ok \/ ~use_ml
                   /\ args' = <<text, use_ml>>
                   /\ raised' = (IF first.ok /\ last.ok THEN "" ELSE "re.error")
                   /\ ret' = (IF first.ok /\ last.ok THEN last.text ELSE <<>>)
       \/ \E fails \in (IF ml_loaded THEN {FALSE} ELSE BOOLEAN) :
             /\ _ensure_ml_corrector(fails)
             /\ \E m \in {MlCorrector'}, loaded \in {ml_loaded' /\ ml_corrector'.present},
                   text \in IntegratedTexts, throws \in BOOLEAN :
                   \E first \in {_correct_compound_phrases(text)} :
                      /\ first.ok
                      /\ \E last \in {_correct_compound_phrases(
                                          IF loaded /\ ~throws
                                          THEN correct_text_with_ml(m, first.text)
                                          ELSE first.text)} :
                            /\ args' = <<text, TRUE>>
                            /\ raised' = (IF last.ok THEN "" ELSE "re.error")
                            /\ ret' = (IF last.ok THEN last.text ELSE <<>>)

\* the calls on the engine: those of the base and of the enhanced class,
\* and the two of LexiconIntegratedCorrector that load the ML corrector
NextIntegrated ==
    \/ IsCorrect
    \/ FindClosestMatches
    \/ CorrectTextWithContext
    \/ SuggestCorrections
    \/ IntegratedCorrectText
    \/ Return

SpecIntegrated == InitIntegrated /\ [][NextIntegrated]_vars

(***************************************************************************)
(* SpecRace: two callers of one LexiconIntegratedCorrector inside          *)
(* _ensure_ml_corrector, statement by statement.  A caller gets there from *)
(* suggest_corrections (a word with no exact or normalized match) or from  *)
(* correct_text(use_ml=True); no lock is taken anywhere on the way.        *)
(* pc[c]: "idle" outside; "checked" after `if self._ml_loaded` was false;  *)
(* "constructed" holding the new ContextAwareCorrector; "assigned" after   *)
(* self._ml_corrector = ...; "raised" in the except clause; "reset" after  *)
(* self._ml_corrector = None.                                              *)
(***************************************************************************)
\* the callers that passed the test and have not called the constructor yet
InFlight == Cardinality({c \in Callers : pc[c] = "checked"})

\* between the test of _ml_loaded and the call of the constructor the flag
\* is never read again
MustConstructRechecking(c) == ~ml_loaded

MustConstruct(c) == TRUE

\* if self._ml_loaded: return -- a caller that finds the flag set goes on
\* with its call and changes nothing; one that finds it clear enters the try
RaceCheck(c) ==
    /\ pc[c] = "idle"
    /\ ~ml_loaded
    /\ ml_constructions + InFlight < MaxConstructions
    /\ pc' = [pc EXCEPT ![c] = "checked"]
    /\ UNCHANGED <<fileVars, engineVars, ngramVars, liVars, ml_constructions, callVars>>

\* ContextAwareCorrector(self.lexicon_path, self.corpus_path, ...): it
\* returns the new object or raises
RaceConstruct(c) ==
    /\ pc[c] = "checked"
    /\ IF MustConstruct(c)
       THEN /\ ml_constructions' = ml_constructions + 1
            /\ \E fails \in BOOLEAN :
                  pc' = [pc EXCEPT ![c] = IF fails THEN "raised" ELSE "constructed"]
       ELSE /\ pc' = [pc EXCEPT ![c] = "idle"]
            /\ UNCHANGED ml_constructions
    /\ UNCHANGED <<fileVars, engineVars, ngramVars, liVars, callVars>>

\* self._ml_corrector = <the new object>, its n-gram model trained
RaceAssign(c) ==
    /\ pc[c] = "constructed"
    /\ LET model == train([ngrams |-> <<>>, vocab |-> {}, total_words |-> 0],
                          3, TrainingCorpus(corpus_file))
       IN /\ ngram_n' = 3
          /\ ngrams' = model.ngrams
          /\ vocab' = model.vocab
          /\ total_words' = model.total_words
    /\ ml_corrector' = [present |-> TRUE, lexicon |-> ml_load_lexicon(lexicon_file)]
    /\ pc' = [pc EXCEPT ![c] = "assigned"]
    /\ UNCHANGED <<fileVars, engineVars, normalized_mapping, ml_loaded,
                   rapidfuzz_available, ml_constructions, callVars>>

\* self._ml_loaded = True
RaceSetLoaded(c) ==
    /\ pc[c] = "assigned"
    /\ ml_loaded' = TRUE
    /\ pc' = [pc EXCEPT ![c] = "idle"]
    /\ UNCHANGED <<fileVars, engineVars, ngramVars, normalized_mapping, ml_corrector,
                   rapidfuzz_available, ml_constructions, callVars>>

\* except Exception: self._ml_corrector = None -- the engine is left with
\* no ML corrector and no n-gram model
RaceExcept(c) ==
    /\ pc[c] = "raised"
    /\ ml_corrector' = NoMlCorrector
    /\ ngram_n' = 0
    /\ ngrams' = <<>>
    /\ vocab' = {}
    /\ total_words' = 0
    /\ pc' = [pc EXCEPT ![c] = "reset"]
    /\ UNCHANGED <<fileVars, engineVars, normalized_mapping, ml_loaded,
                   rapidfuzz_available, ml_constructions, callVars>>

\* self._ml_loaded = False
RaceClearLoaded(c) ==
    /\ pc[c] = "reset"
    /\ ml_loaded' = FALSE
    /\ pc' = [pc EXCEPT ![c] = "idle"]
    /\ UNCHANGED <<fileVars, engineVars, ngramVars, normalized_mapping, ml_corrector,
                   rapidfuzz_available, ml_constructions, callVars>>

\* a caller inside _ensure_ml_corrector runs its next statement
RaceProceed(c) ==
    \/ RaceConstruct(c)
    \/ RaceAssign(c)
    \/ RaceSetLoaded(c)
    \/ RaceExcept(c)
    \/ RaceClearLoaded(c)

NextRace == \E c \in Callers : RaceCheck(c) \/ RaceProceed(c)

\* the engine before any call, its corpus a file of a few words
InitRace ==
    /\ \E file \in IntegratedLexiconFiles, corpus \in {f \in CorpusFiles : f.exists} :
          /\ Constructed(file, corpus)
          /\ ConstructedIntegrated(file, FALSE)
    /\ NoNGramModel
    /\ Idle

\* a caller that passed the test is not stopped for ever before it calls
\* the constructor
SpecRace ==
    /\ InitRace
    /\ [][NextRace]_vars
    /\ \A c \in Callers : WF_vars(RaceConstruct(c))

(***************************************************************************)
(* Claims                                                                  *)
(***************************************************************************)
\* C2: normalize (strip_diacritics) is total and idempotent: whatever string
\* it is given it returns a string, and normalizing that string again
\* returns it unchanged.
C2_NormalizeIdempotent ==
    op = "strip_diacritics" =>
        /\ DOMAIN ret = 1..Len(ret)
        /\ \A i \in DOMAIN ret : ret[i] \in Nat
        /\ strip_diacritics(ret) = ret

\* a call that removed a diacritic and lower-cased: its result differs from
\* its argument
C2_Witness ==
    /\ op = "strip_diacritics"
    /\ args[1] = <<192, 7865, 768>>
    /\ ret = <<97, 101>>

\* C3: the edit distance is symmetric, and the distance from a string to
\* itself is 0.
C3_LevenshteinSymmetric ==
    op = "_levenshtein_distance" =>
        /\ ret = _levenshtein_distance(args[2], args[1])
        /\ (args[1] = args[2] => ret = 0)

\* a call on two different strings of different lengths, and one on a string
\* against itself
C3_Witness ==
    /\ op = "_levenshtein_distance"
    /\ args = <<<<97, 111>>, <<224, 111, 97>>>>
    /\ ret = 2

\* the edit distance between the normalized word and the normalized entry
KeyDistance(word, entry) ==
    _levenshtein_distance(strip_diacritics(word), strip_diacritics(entry))

\* u and w are the same string, code point by code point
SameString(u, w) == Len(u) = Len(w) /\ \A k \in 1..Len(u) : u[k] = w[k]

\* C1: is_correct(w) is true exactly when w is an entry of the loaded
\* lexicon, compared exactly (case and diacritics count); in particular it
\* is true of every entry of the lexicon.
C1_IsCorrectExact ==
    /\ op = "is_correct" =>
           (ret <=> \E i \in DOMAIN lexicon : SameString(lexicon[i], args[1]))
    /\ \A i \in DOMAIN lexicon : is_correct(lexicon[i])

\* is_correct said no to a word whose variant by case and diacritics is in
\* the lexicon, and yes to a word of the lexicon
C1_Witness ==
    /\ lexicon = <<<<224>>, <<111>>>>
    /\ op = "is_correct"
    /\ \/ args[1] = <<65>> /\ ret = FALSE
       \/ args[1] = <<224>> /\ ret = TRUE

\* the distances of the returned entries never decrease along the list
DistancesNonDecreasing(word, entries) ==
    \A j \in 1..Len(entries), k \in 1..Len(entries) :
        j < k => KeyDistance(word, entries[j]) <= KeyDistance(word, entries[k])

\* C4 as stated: for every word, in the lexicon or not, and every
\* max_matches >= 0, find_closest_matches returns at most max_matches
\* entries, by non-decreasing distance.
C4_AtMostMaxMatches ==
    (op = "find_closest_matches" /\ args[2] >= 0) =>
        /\ Len(ret) <= args[2]
        /\ DistancesNonDecreasing(args[1], ret)

\* C4 amended: for a word that is not an exact lexicon entry and every
\* max_matches >= 0, at most max_matches entries are returned, by
\* non-decreasing distance; for an exact lexicon entry the result is the
\* one-entry list [word] whatever max_matches is, also when it is 0.
C4_AtMostMaxMatchesUnlessExact ==
    (op = "find_closest_matches" /\ args[2] >= 0) =>
        /\ IF \E i \in DOMAIN lexicon : lexicon[i] = args[1]
           THEN ret = <<args[1]>>
           ELSE Len(ret) <= args[2]
        /\ DistancesNonDecreasing(args[1], ret)

\* "oo" against the lexicon [a, a-grave o]: both entries are within
\* distance 2, the nearer one is second in the file, and max_matches = 1
\* keeps only it
C4_Witness ==
    /\ lexicon = <<<<97>>, <<224, 111>>>>
    /\ op = "find_closest_matches"
    /\ args = <<<<111, 111>>, 1, 2>>
    /\ ret = <<<<224, 111>>>>

\* text with every run of white space replaced by one space and the white
\* space at both ends removed
RECURSIVE CollapseRuns(_)
CollapseRuns(s) ==
    IF s = <<>> THEN <<>>
    ELSE IF IsSpace(Head(s))
         THEN (IF Tail(s) = <<>> THEN <<>>
               ELSE IF IsSpace(Head(Tail(s))) THEN CollapseRuns(Tail(s))
               ELSE <<32>> \o CollapseRuns(Tail(s)))
         ELSE <<Head(s)>> \o CollapseRuns(Tail(s))

SingleSpaced(text) == CollapseRuns(LStrip(text))

\* C5: a text whose white-space-separated tokens are all exact lexicon
\* entries comes back with its tokens unchanged, single-spaced.
C5_CorrectTextKeepsCorrectInput ==
    (/\ op = "correct_text_with_context"
     /\ \A t \in Range(Split(args[1])) : \E i \in DOMAIN lexicon : lexicon[i] = t)
        => ret = SingleSpaced(args[1])

\* two correct tokens separated by a tab, the first of which has another
\* variant ("a") before it in the lexicon
C5_Witness ==
    /\ lexicon = <<<<97>>, <<224>>>>
    /\ op = "correct_text_with_context"
    /\ args[1] = <<224, 9, 224>>
    /\ ret = <<224, 32, 224>>

\* C10: the winner of disambiguate_tonal_variants is determined by the
\* engine and the candidate list: it is the candidate of highest score, and
\* among candidates that tie on the highest score the first in list order
\* (with an empty frequency table every score is 1.0, so the first
\* candidate; the same with duplicates).
C10_DisambiguateFirstBest ==
    (op = "disambiguate_tonal_variants" /\ raised = "") =>
        \E k \in DOMAIN args[1] :
            /\ ret = args[1][k]
            /\ \A j \in DOMAIN args[1] :
                   /\ ScoreGE(_contextual_score(args[1][k], <<>>), _contextual_score(args[1][j], <<>>))
                   /\ j < k => ~ScoreGE(_contextual_score(args[1][j], <<>>), _contextual_score(args[1][k], <<>>))
            /\ (DOMAIN word_frequencies = {} => k = 1)

\* two candidates that tie (neither is in the frequency table of a corpus
\* that exists), and the first one wins; and a case where the more frequent
\* second candidate wins
C10_Witness ==
    /\ op = "disambiguate_tonal_variants"
    /\ \/ /\ word_frequencies # <<>>
          /\ <<111>> \notin DOMAIN word_frequencies
          /\ args[1] = <<<<111>>, <<111>>>>
          /\ ret = <<111>>
       \/ /\ corpus_file.text = <<224, 32, 97, 32, 224>>
          /\ args[1] = <<<<97>>, <<224>>>>
          /\ ret = <<224>>

\* C6: probability(word, context) is a number greater than 0 and at most 1,
\* for every word and every context of any length, on the untrained model
\* and after any training.
C6_ProbabilityPositive ==
    op = "probability" =>
        /\ ret[2] > 0
        /\ ret[1] > 0
        /\ ret[1] <= ret[2]

\* the probability of a word that was never seen after a context that was
\* seen in training: 1 / (|vocab| + 1)
C6_Witness ==
    /\ op = "probability"
    /\ ngram_n = 3
    /\ SliceSuffix(args[2], 2) \in DOMAIN ngrams
    /\ args[1] \notin DOMAIN ngrams[SliceSuffix(args[2], 2)]
    /\ Cardinality(vocab) = 2
    /\ ret = <<1, 3>>

\* C7 as stated: with mo, fe (marked) and kawe (marked) in the lexicon,
\* correct_text_with_context("mo fe ka iwe") is the three-token text
\* "mo fe kawe" with its marks.
C7_MoFeKaIweThreeTokens ==
    (/\ op = "correct_text_with_context"
     /\ args[1] = JoinSpace(Sentence_MoFeKaIwe)
     /\ Lexicon_MoFeKawe \subseteq Range(lexicon))
        => ret = JoinSpace(<<Word_mo, Word_fe_marked, Word_kawe_marked>>)

\* the entries of the lexicon whose normalized key is within the default
\* distance of the token's
Candidates(token) ==
    {e \in Range(lexicon) : KeyDistance(token, e) <= DefaultMaxDistance}

\* entry is a lexicon word no other lexicon word is nearer to the token than
NearestInLexicon(token, entry) ==
    /\ entry \in Candidates(token)
    /\ \A e \in Range(lexicon) : KeyDistance(token, entry) <= KeyDistance(token, e)

\* C8 as stated: with awon, omo and ile (marked) in the lexicon,
\* correct_text_with_context("awa omo ile") is "awon omo ile" with its marks.
C8_AwaOmoIle ==
    (/\ op = "correct_text_with_context"
     /\ args[1] = JoinSpace(Sentence_AwaOmoIle)
     /\ Lexicon_AwonOmoIle \subseteq Range(lexicon))
        => ret = JoinSpace(<<Word_awon_marked, Word_omo_marked, Word_ile_marked>>)

\* C8 amended: when the lexicon consists of exactly awon, omo and ile
\* (marked), in any order and with any corpus, "awa omo ile" becomes
\* "awon omo ile" with its marks, and every text of these tokens has each
\* token replaced by the one lexicon word whose normalized key is within
\* distance 2, which is the nearest.
C8_AwaOmoIleExactLexicon ==
    (/\ op = "correct_text_with_context"
     /\ Range(lexicon) = Lexicon_AwonOmoIle)
        => /\ args[1] = JoinSpace(Sentence_AwaOmoIle)
                => ret = JoinSpace(<<Word_awon_marked, Word_omo_marked, Word_ile_marked>>)
           /\ LET tokens == Split(args[1])
                  out    == Split(ret)
              IN /\ Len(out) = Len(tokens)
                 /\ \A k \in DOMAIN tokens :
                        /\ Candidates(tokens[k]) = {out[k]}
                        /\ NearestInLexicon(tokens[k], out[k])

\* the scenario sentence corrected with the three words listed in another
\* order than the sentence's and a corpus loaded: awa is replaced by a word
\* at distance 2
C8_Witness ==
    /\ op = "correct_text_with_context"
    /\ lexicon = <<Word_ile_marked, Word_omo_marked, Word_awon_marked>>
    /\ word_frequencies # <<>>
    /\ args[1] = JoinSpace(Sentence_AwaOmoIle)
    /\ KeyDistance(Sentence_AwaOmoIle[1], Word_awon_marked) = 2
    /\ ret = JoinSpace(<<Word_awon_marked, Word_omo_marked, Word_ile_marked>>)

\* C9 as stated: on a normalized-key hit of suggest_corrections every
\* candidate is a whole lexicon entry whose normalized key is the input's,
\* of kind "Normalized match", and the first has confidence 0.9; with omo
\* (marked) the only lexicon word and the input "omo", the first candidate
\* is omo (marked).
C9_NormalizedHitWholeEntries ==
    (/\ op = "suggest_corrections"
     /\ ~is_correct(args[1])
     /\ strip_diacritics(args[1]) \in DOMAIN normalized_mapping)
        => /\ ret # <<>>
           /\ ret[1][3] = <<9, 10>>
           /\ \A i \in DOMAIN ret :
                  /\ ret[i][1] \in Range(lexicon)
                  /\ strip_diacritics(ret[i][1]) = strip_diacritics(args[1])
                  /\ ret[i][2] = "Normalized match"
           /\ (lexicon = <<Word_omo_marked>> /\ args[1] = Sentence_AwaOmoIle[2])
                  => ret[1][1] = Word_omo_marked

\* the positions of the lexicon whose entry has a normalized key within
\* max_distance of the word's
PositionsWithin(word, max_distance) ==
    {i \in DOMAIN lexicon : KeyDistance(word, lexicon[i]) <= max_distance}

\* the position at which the normalized key of lexicon[i] occurs first
KeyFirstPosition(i) ==
    CHOOSE j \in DOMAIN lexicon :
        /\ strip_diacritics(lexicon[j]) = strip_diacritics(lexicon[i])
        /\ \A k \in 1..(j - 1) : strip_diacritics(lexicon[k]) # strip_diacritics(lexicon[i])

\* position q comes before position p: nearer first, ties in lexicon order
BeforeByLexiconOrder(word, q, p) ==
    \/ KeyDistance(word, lexicon[q]) < KeyDistance(word, lexicon[p])
    \/ KeyDistance(word, lexicon[q]) = KeyDistance(word, lexicon[p]) /\ q < p

\* position q comes before position p: nearer first, ties by the place where
\* the key occurs first in the lexicon, entries of one key in lexicon order
BeforeByKeyOrder(word, q, p) ==
    \/ KeyDistance(word, lexicon[q]) < KeyDistance(word, lexicon[p])
    \/ /\ KeyDistance(word, lexicon[q]) = KeyDistance(word, lexicon[p])
       /\ \/ KeyFirstPosition(q) < KeyFirstPosition(p)
          \/ KeyFirstPosition(q) = KeyFirstPosition(p) /\ q < p

\* C19 as stated: for a word that is no exact lexicon entry the result is
\* the lexicon entries within max_distance, nearest first, entries at the
\* same distance in lexicon order whatever their keys, cut to max_matches.
C19_TiesInLexiconOrder ==
    (op = "find_closest_matches" /\ ~exact_match(args[1]) /\ args[2] >= 0) =>
        LET P == PositionsWithin(args[1], args[3])
        IN /\ Len(ret) = Min2(args[2], Cardinality(P))
           /\ \A k \in DOMAIN ret :
                  \E p \in P :
                      /\ ret[k] = lexicon[p]
                      /\ Cardinality({q \in P : BeforeByLexiconOrder(args[1], q, p)}) = k - 1

\* C19 amended: the same, but entries at the same distance come key by key,
\* the keys in the order of their first occurrence in the lexicon, and the
\* entries of one key in lexicon order.
C19_TiesInKeyOrder ==
    (op = "find_closest_matches" /\ ~exact_match(args[1]) /\ args[2] >= 0) =>
        LET P == PositionsWithin(args[1], args[3])
        IN /\ Len(ret) = Min2(args[2], Cardinality(P))
           /\ \A k \in DOMAIN ret :
                  \E p \in P :
                      /\ ret[k] = lexicon[p]
                      /\ Cardinality({q \in P : BeforeByKeyOrder(args[1], q, p)}) = k - 1

\* the lexicon a, o, a-grave asked for "a-grave o": all three are at
\* distance 1, and a-grave comes before o though o is listed before it
C19_Witness ==
    /\ op = "find_closest_matches"
    /\ lexicon = <<<<97>>, <<111>>, <<224>>>>
    /\ args = <<<<224, 111>>, 3, 1>>
    /\ ret = <<<<97>>, <<224>>, <<111>>>>

\* the normalized keys of the lexicon entries
NormalizedKeys == {strip_diacritics(lexicon[i]) : i \in DOMAIN lexicon}

\* the fraction f is total / keys, or it is 0 when there is no key
IsAverage(f, total, keys) ==
    IF keys = 0 THEN f[1] = 0 /\ f[2] # 0
    ELSE f[2] # 0 /\ f[1] * keys = total * f[2]

\* C14 as stated: get_stats returns the fields total_words,
\* unique_normalized_keys and average_variants: the number of lexicon
\* entries, the number of distinct normalized keys, and their quotient (0
\* when there is no key).
C14_StatsFields ==
    op = "get_stats" =>
        /\ DOMAIN ret = {"total_words", "unique_normalized_keys", "average_variants"}
        /\ ret.total_words = Len(lexicon)
        /\ ret.unique_normalized_keys = Cardinality(NormalizedKeys)
        /\ IsAverage(ret.average_variants, ret.total_words, ret.unique_normalized_keys)

\* C14 amended: the same values, the number of keys under the field name
\* unique_normalized.
C14_StatsFieldsAsNamed ==
    op = "get_stats" =>
        /\ DOMAIN ret = {"total_words", "unique_normalized", "average_variants"}
        /\ ret.total_words = Len(lexicon)
        /\ ret.unique_normalized = Cardinality(NormalizedKeys)
        /\ IsAverage(ret.average_variants, ret.total_words, ret.unique_normalized)

\* the statistics of a lexicon of two entries with one key, and of an empty
\* lexicon
C14_Witness ==
    /\ op = "get_stats"
    /\ \/ /\ lexicon = <<<<97>>, <<65>>>>
          /\ ret.total_words = 2
          /\ ret.unique_normalized = 1
          /\ ret.average_variants = <<2, 1>>
       \/ /\ lexicon = <<>>
          /\ ret.average_variants = <<0, 1>>

\* C20 as stated: every candidate of suggest_corrections has a confidence
\* between 0 and 1, for every word and every max_suggestions.
C20_ConfidenceInUnitInterval ==
    op = "suggest_corrections" =>
        \A i \in DOMAIN ret :
            /\ ret[i][3][2] > 0
            /\ 0 <= ret[i][3][1]
            /\ ret[i][3][1] <= ret[i][3][2]

\* the positions of the text at which a token begins: a character that is
\* not white space and, when it is a word character, follows none
TokenStarts(text) ==
    {i \in DOMAIN text :
        /\ ~IsSpace(text[i])
        /\ IsWordChar(text[i]) => (i = 1 \/ ~IsWordChar(text[i - 1]))}

\* the token that begins at i: the maximal run of word characters, or the
\* single character
TokenFrom(text, i) ==
    IF IsWordChar(text[i])
    THEN SubSeq(text, i,
                CHOOSE j \in i..Len(text) :
                    /\ \A k \in i..j : IsWordChar(text[k])
                    /\ j = Len(text) \/ ~IsWordChar(text[j + 1]))
    ELSE <<text[i]>>

\* the tokens of the text in text order
TokensOf(text) ==
    LET S == TokenStarts(text)
    IN [k \in 1..Cardinality(S) |->
           TokenFrom(text, CHOOSE i \in S : Cardinality({j \in S : j < i}) = k - 1)]

\* what suggest_corrections(token, max_suggestions=1) returns when the
\* similarity library scores as wratio says
TopSuggestions(token, wratio) ==
    base_suggest_corrections(token, 1, DefaultSimilarityThreshold,
                             ScoresFor(wratio, strip_diacritics(token)))

\* the piece of the output that stands for one token
PieceOf(token, wratio) ==
    IF ~IsWordChar(token[1]) THEN token
    ELSE IF token \in Range(lexicon) THEN token
    ELSE IF TopSuggestions(token, wratio) # <<>> THEN TopSuggestions(token, wratio)[1][1]
    ELSE token

\* the scores the similarity library can have given while text was corrected
LibraryAnswers(text) == [LibraryInputs(text) -> [IndexKeys -> ScoreChoices]]

PiecesPassThrough(tokens, pieces, wratio) ==
    /\ Len(pieces) = Len(tokens)
    /\ \A k \in DOMAIN tokens :
           /\ pieces[k] = tokens[k] \/ pieces[k] \in Range(lexicon)
           /\ (/\ tokens[k] \notin Range(lexicon)
               /\ IsWordChar(tokens[k][1])
               /\ TopSuggestions(tokens[k], wratio) = <<>>) => pieces[k] = tokens[k]
           /\ ~IsWordChar(tokens[k][1]) => pieces[k] = tokens[k]

\* C16: on both paths a token that is not in the lexicon and has no
\* candidate (no suggestion on the fast path, no normalized key within the
\* distance on the context-aware path) is emitted unchanged, and every
\* token of the output is the input token or a lexicon entry.
C16_NoCandidatePassThrough ==
    /\ op = "correct_text" =>
           LET tokens == TokensOf(args[1])
           IN \E wratio \in LibraryAnswers(args[1]) :
                  \E pieces \in [DOMAIN tokens -> Range(tokens) \cup Range(lexicon)] :
                      /\ ret = Concat(pieces)
                      /\ PiecesPassThrough(tokens, pieces, wratio)
    /\ op = "correct_text_with_context" =>
           LET tokens == Split(args[1])
               out    == Split(ret)
           IN /\ Len(out) = Len(tokens)
              /\ \A k \in DOMAIN tokens :
                     /\ out[k] = tokens[k] \/ out[k] \in Range(lexicon)
                     /\ (tokens[k] \notin Range(lexicon) /\ Candidates(tokens[k]) = {})
                            => out[k] = tokens[k]

\* with the lexicon "o" the token "a-grave a-grave a-grave" has no key
\* within distance 2 and no suggestion: both paths return it as it is
C16_Witness ==
    /\ op \in {"correct_text", "correct_text_with_context"}
    /\ ~rapidfuzz_available
    /\ lexicon = <<<<111>>>>
    /\ args[1] = <<224, 224, 224>>
    /\ ret = <<224, 224, 224>>

\* the names of the classes whose constructor takes a lexicon path
LexiconClasses ==
    {"YorubaSpellingCorrector", "EnhancedYorubaSpellingCorrector",
     "LexiconIntegratedCorrector", "ContextAwareCorrector"}

\* C11 as stated: constructed with the path of a missing or unreadable
\* lexicon file, each of the four classes raises and returns no object.
C11_MissingLexiconFails ==
    (op \in LexiconClasses /\ ~lexicon_file.exists) =>
        /\ raised # ""
        /\ ret = FALSE

\* C12 as stated: correct_text(text, use_ml=True) never raises, and when
\* the construction of the ML corrector failed it returns what
\* correct_text(text, use_ml=False) returns.
C12_CorrectTextNeverRaises ==
    (op = "correct_text" /\ args[2]) =>
        /\ raised = ""
        /\ ~ml_loaded => ret = correct_text_without_ml(args[1]).text

\* C17 as stated: once _ensure_ml_corrector has constructed the ML
\* corrector, with a failure or with success, no later call constructs it
\* again.
C17_ConstructedOnce ==
    [][ml_constructions >= 1 => ml_constructions' = ml_constructions]_vars

\* the structures built from the lexicon and the corpus at construction
BuiltStructures ==
    <<lexicon, index, normalized_lexicon, normalized_mapping, word_frequencies, tonal_patterns>>

\* the lazily loaded part: the ML corrector and its n-gram model
MlState == <<ml_loaded, ml_corrector, ngram_n, ngrams, vocab, total_words>>

\* C13 as stated: no correction or query call changes any engine
\* structure, the n-gram model and the ML state included.
C13_CallsChangeNothing == [][BuiltStructures' = BuiltStructures /\ MlState' = MlState]_vars

\* C13 amended: no call changes the lexicon, the normalized index, the
\* phrase-key mapping, the frequency table or the tonal-pattern groups; the
\* n-gram model and the ML state change only in a suggest_corrections or
\* correct_text call of LexiconIntegratedCorrector that loads the ML
\* corrector, and never once it is loaded.
C13_OnlyLazyLoadChanges ==
    [][/\ BuiltStructures' = BuiltStructures
       /\ MlState' # MlState =>
             /\ ~ml_loaded
             /\ ml_loaded'
             /\ op' \in {"suggest_corrections", "correct_text"}]_vars

\* a correct_text call has loaded the ML corrector of an engine
C13_Witness ==
    /\ op = "correct_text"
    /\ args[2]
    /\ ml_loaded
    /\ ml_constructions = 1
    /\ ngram_n = 3
    /\ lexicon # <<>>

\* C18: the lazy initialization is a race.  Once both callers have passed
\* the test of _ml_loaded, the ML corrector is constructed by each of them:
\* twice more than it had been.
C18_BothPassThenTwice ==
    \A n \in 0..MaxConstructions :
        ((\A c \in Callers : pc[c] = "checked") /\ ml_constructions = n)
            ~> (ml_constructions = n + 2)

\* one caller's failure has cleared _ml_corrector after the other's
\* success: the corrector was constructed twice, _ml_loaded is True and
\* _ml_corrector is None, the failing caller about to clear the flag too
C18_Witness ==
    /\ ml_constructions >= 2
    /\ ml_loaded
    /\ ~ml_corrector.present
    /\ \E c \in Callers : pc[c] = "reset"

\* the confidence of a candidate as a rational strictly under / over a/b
ConfidenceBelow(conf, a, b) == conf[1] * b < a * conf[2]

ConfidenceAbove(conf, a, b) == conf[1] * b > a * conf[2]

\* C21 as stated: the confidence of a candidate is ordered by its kind.
\* An exact match has 1.0 and a diacritic restoration 0.85, so the order
\* Exact > Normalized > Restoration > Base over all candidates that can be
\* produced is: every normalized match lies strictly between 0.85 and 1.0
\* and every base suggestion strictly under 0.85.
C21_ConfidenceOrderedByKind ==
    op = "suggest_corrections" =>
        \A i \in DOMAIN ret :
            /\ ret[i][2] = "Exact match" => ret[i][3] = <<1, 1>>
            /\ ret[i][2] = "ML diacritic restoration" => ret[i][3] = <<85, 100>>
            /\ ret[i][2] = "Normalized match" =>
                  /\ ConfidenceBelow(ret[i][3], 1, 1)
                  /\ ConfidenceAbove(ret[i][3], 85, 100)
            /\ ret[i][2] = "Base suggestion" => ConfidenceBelow(ret[i][3], 85, 100)

(***************************************************************************)
(* SpecRestorer: a TransformerDiacriticRestorer with no transformer        *)
(* loaded, restoring and stripping words.                                  *)
(***************************************************************************)
\* the characters of the restorer's words: a, à, ẹ, combining acute, O, Ọ
RestorerAlphabet == {97, 224, 7865, 769, 79, 7884}

\* the words handed to the restorer: every short string, the keys of
\* common_patterns, and the forms common_patterns restores them to
RestorerWords ==
    StringsUpTo(RestorerAlphabet, MaxStrLen)
        \cup {e[1] : e \in CommonPatterns} \cup {e[2] : e \in CommonPatterns}

RestoreDiacriticsWord ==
    /\ op = "idle"
    /\ \E word \in RestorerWords :
          /\ op' = "restore_diacritics_word"
          /\ args' = <<word>>
          /\ ret' = restore_diacritics_word(word, <<>>)
    /\ raised' = ""
    /\ UNCHANGED <<fileVars, engineVars, ngramVars, liVars, loadVars>>

RestorerStripDiacritics ==
    /\ op = "idle"
    /\ \E text \in RestorerWords :
          /\ op' = "restorer.strip_diacritics"
          /\ args' = <<text>>
          /\ ret' = restorer_strip_diacritics(text)
    /\ raised' = ""
    /\ UNCHANGED <<fileVars, engineVars, ngramVars, liVars, loadVars>>

NextRestorer == RestoreDiacriticsWord \/ RestorerStripDiacritics \/ Return

SpecRestorer == InitText /\ [][NextRestorer]_vars

\* a character that carries a diacritic: a combining mark, or a letter
\* that decomposes into a base letter and a mark
IsDiacriticChar(c) == IsMn(c) \/ Decompose(c) # <<c>>

\* C22 as stated: the restorer's strip_diacritics takes every restored form
\* of common_patterns back to its key, and leaves no character that carries
\* a diacritic.
C22_StripInvertsRestore ==
    op = "restorer.strip_diacritics" =>
        /\ \A e \in CommonPatterns : args[1] = e[2] => ret = e[1]
        /\ \A i \in DOMAIN ret : ~IsDiacriticChar(ret[i])

(***************************************************************************)
(* SpecCompound: a LexiconIntegratedCorrector built on a lexicon of words  *)
(* and phrases where rapidfuzz is not installed, and                       *)
(* _correct_compound_phrases and correct_text(use_ml=False) called on it.  *)
(***************************************************************************)
\* the lines of the lexicons: o, a, à, ao, a-o, "a o"
CompoundLines ==
    {<<111>>, <<97>>, <<224>>, <<97, 111>>, <<97, 45, 111>>, <<97, 32, 111>>}

CompoundLexiconFiles ==
    {[exists |-> TRUE, lines |-> l] : l \in StringsUpTo(CompoundLines, MaxLexLines)}

\* the code points of the texts: a, o, space
CompoundAlphabet == {97, 111, 32}

\* the texts: every short text, and "a-o", "a-", "-", "o-a", "à o", "A o",
\* "a  o"
CompoundTexts ==
    StringsUpTo(CompoundAlphabet, MaxTextLen)
        \cup {<<97, 45, 111>>, <<97, 45>>, <<45>>, <<111, 45, 97>>,
              <<224, 32, 111>>, <<65, 32, 111>>, <<97, 32, 32, 111>>}

InitCompound ==
    /\ \E file \in CompoundLexiconFiles :
          /\ Constructed(file, [exists |-> FALSE, text |-> <<>>])
          /\ ConstructedIntegrated(file, FALSE)
    /\ NoNGramModel
    /\ Idle

\* LexiconIntegratedCorrector._correct_compound_phrases(text)
CorrectCompoundPhrases ==
    /\ op = "idle"
    /\ \E text \in CompoundTexts :
          \E result \in {_correct_compound_phrases(text)} :
             /\ op' = "_correct_compound_phrases"
             /\ args' = <<text>>
             /\ raised' = (IF result.ok THEN "" ELSE "re.error")
             /\ ret' = (IF result.ok THEN result.text ELSE <<>>)
    /\ UNCHANGED <<fileVars, engineVars, ngramVars, liVars, loadVars>>

\* LexiconIntegratedCorrector.correct_text(text, use_ml=False)
CorrectTextWithoutMl ==
    /\ op = "idle"
    /\ \E text \in CompoundTexts :
          \E result \in {correct_text_without_ml(text)} :
             /\ op' = "correct_text"
             /\ args' = <<text, FALSE>>
             /\ raised' = (IF result.ok THEN "" ELSE "re.error")
             /\ ret' = (IF result.ok THEN result.text ELSE <<>>)
    /\ UNCHANGED <<fileVars, engineVars, ngramVars, liVars, loadVars>>

NextCompound == CorrectCompoundPhrases \/ CorrectTextWithoutMl \/ Return

SpecCompound == InitCompound /\ [][NextCompound]_vars

\* re.sub followed through a text whose characters are marked when a
\* replacement wrote them: [marks, hit], the marks of the text after the
\* substitution, and hit when a match that changes the text takes a marked
\* character
RECURSIVE SubMarkedFrom(_, _, _, _, _)
SubMarkedFrom(parts, replacement, text, marks, p) ==
    IF p > Len(text) THEN [marks |-> <<>>, hit |-> FALSE]
    ELSE LET e == MatchEnd(parts, text, p)
         IN IF e > p
            THEN LET rest == SubMarkedFrom(parts, replacement, text, marks, e)
                 IN [marks |-> [i \in 1..Len(replacement) |-> TRUE] \o rest.marks,
                     hit |-> \/ rest.hit
                             \/ /\ \E q \in p..(e - 1) : marks[q]
                                /\ SubSeq(text, p, e - 1) # replacement]
            ELSE LET rest == SubMarkedFrom(parts, replacement, text, marks, p + 1)
                 IN [marks |-> <<marks[p]>> \o rest.marks, hit |-> rest.hit]

\* the loops of _correct_compound_phrases from the k-th phrase on: TRUE
\* when a later window rewrites a part of what an earlier one wrote
RECURSIVE RewritesReplaced(_, _, _, _, _)
RewritesReplaced(words, spans, k, corrected_text, marks) ==
    IF k > Len(spans) THEN FALSE
    ELSE LET phrase == JoinSpace(SubSeq(words, spans[k][1], spans[k][1] + spans[k][2] - 1))
             found == ReplacementFrom(PhraseVariants(phrase), 1)
             template == ExpandTemplate(found.word)
         IN IF ~found.found THEN RewritesReplaced(words, spans, k + 1, corrected_text, marks)
            ELSE IF ~template.ok THEN FALSE
            ELSE LET sub == SubMarkedFrom(ReSplit(phrase), template.text, corrected_text, marks, 1)
                 IN \/ sub.hit
                    \/ RewritesReplaced(words, spans, k + 1,
                           SubFrom(ReSplit(phrase), template.text, corrected_text, 1), sub.marks)

\* the spans are in the order the loops visit them: longest first
LongestFirst(spans) ==
    \A j, k \in DOMAIN spans : j < k => spans[j][2] >= spans[k][2]

\* C23 as stated: the windows of _correct_compound_phrases are tried from the
\* longest (min(4, number of tokens)) down to one token, and what a window
\* was rewritten to is not rewritten, in any part, by a later window.
C23_LongestMatchSurvives ==
    op = "_correct_compound_phrases" =>
        LET words == Split(args[1])
            spans == PhraseSpans(Len(words), Min2(4, Len(words)))
        IN /\ LongestFirst(spans)
           /\ ~RewritesReplaced(words, spans, 1, args[1], [i \in DOMAIN args[1] |-> FALSE])

\* the entries of the lexicon with the normalized key k, in file order
EntriesOfKey(k) == SelectSeq(lexicon, LAMBDA w : strip_diacritics(w) = k)

\* d, an index, holds under each key exactly the lexicon entries of that
\* key in file order, each once, under distinct keys, none with no entry
GroupsLexiconOnce(d) ==
    /\ \A i, j \in DOMAIN d : i # j => d[i].key # d[j].key
    /\ \A i \in DOMAIN d :
          /\ d[i].originals # <<>>
          /\ d[i].originals = EntriesOfKey(d[i].key)
          /\ \A a, b \in DOMAIN d[i].originals :
                a # b => d[i].originals[a] # d[i].originals[b]
    /\ \A n \in DOMAIN lexicon :
          Cardinality({i \in DOMAIN d : lexicon[n] \in Range(d[i].originals)}) = 1

\* C24 as stated: the index (and the normalized lexicon of the enhanced
\* corrector) maps each normalized key to exactly the lexicon entries of that
\* key, each exactly once and in file order; every entry is under exactly one
\* key and no key has an empty list.
C24_IndexGroupsLexicon ==
    /\ GroupsLexiconOnce(index)
    /\ GroupsLexiconOnce(normalized_lexicon)

(***************************************************************************)
(* SpecSuggest: a YorubaSpellingCorrector with or without the similarity   *)
(* library, asked for suggestions.                                         *)
(***************************************************************************)
\* the lines of the lexicons: a, à, A, ào, aoa
SuggestLines == {<<97>>, <<224>>, <<65>>, <<224, 111>>, <<97, 111, 97>>}

SuggestLexiconFiles ==
    {[exists |-> TRUE, lines |-> l] : l \in StringsUpTo(SuggestLines, MaxLexLines)}

\* the words asked about: a, à, o, O, ao, aob, aaaaa and the empty word
SuggestWords ==
    {<<97>>, <<224>>, <<111>>, <<79>>, <<97, 111>>, <<97, 111, 98>>,
     <<97, 97, 97, 97, 97>>, <<>>}

InitSuggest ==
    /\ \E file \in SuggestLexiconFiles : Constructed(file, [exists |-> FALSE, text |-> <<>>])
    /\ NoNGramModel
    /\ normalized_mapping = <<>>
    /\ ml_loaded = FALSE
    /\ ml_corrector = NoMlCorrector
    /\ rapidfuzz_available \in BOOLEAN
    /\ ml_constructions = 0
    /\ Idle

\* YorubaSpellingCorrector.suggest_corrections(input_word, max_suggestions);
\* the scores of the similarity library are asked for only when the word is
\* no lexicon entry and its normalized form no key
BaseSuggestCorrections ==
    /\ op = "idle"
    /\ \E input_word \in SuggestWords, max_suggestions \in 0..MaxCandidates :
          \E wratio \in (IF /\ rapidfuzz_available
                            /\ ~is_correct(input_word)
                            /\ IndexGet(strip_diacritics(input_word)) = <<>>
                         THEN [IndexKeys -> ScoreChoices]
                         ELSE {NoLibraryScores}) :
             /\ op' = "base.suggest_corrections"
             /\ args' = <<input_word, max_suggestions>>
             /\ ret' = base_suggest_corrections(input_word, max_suggestions,
                                                DefaultSimilarityThreshold, wratio)
    /\ raised' = ""
    /\ UNCHANGED <<fileVars, engineVars, ngramVars, liVars, loadVars>>

NextSuggest == BaseSuggestCorrections \/ Return

SpecSuggest == InitSuggest /\ [][NextSuggest]_vars

\* the variants of the key k in lexicon order, each with score 95
VariantsAt95(k) == [i \in DOMAIN EntriesOfKey(k) |-> <<EntriesOfKey(k)[i], <<95, 1>>>>]

\* a fallback entry: score 50, a key within 3 characters of the input's
\* length that contains the input, is contained in it or shares its first
\* two characters
FallbackEntry(entry, normalized_input) ==
    LET key == strip_diacritics(entry[1])
    IN /\ entry[2] = <<50, 1>>
       /\ Len(key) - Len(normalized_input) \in -3..3
       /\ \/ IsSubstring(normalized_input, key)
          \/ IsSubstring(key, normalized_input)
          \/ SubSeq(key, 1, Min2(2, Len(key)))
                = SubSeq(normalized_input, 1, Min2(2, Len(normalized_input)))

\* what the claim says of the entries, whatever their number
SuggestionsAsDescribed ==
    LET input_word == args[1]
        normalized_input == strip_diacritics(input_word)
    IN IF \E n \in DOMAIN lexicon : lexicon[n] = input_word
       THEN ret = << <<input_word, <<100, 1>>>> >>
       ELSE IF normalized_input \in IndexKeys
       THEN ret = SlicePrefix(VariantsAt95(normalized_input), args[2])
       ELSE ~rapidfuzz_available =>
               \A i \in DOMAIN ret : FallbackEntry(ret[i], normalized_input)

\* C25 as stated: an exact word yields [(word, 100)]; a normalized-key hit
\* the variants in lexicon order at 95, truncated; without the similarity
\* library every entry has score 50 and a key close to the input; and the
\* result never has more than max_suggestions entries.
C25_SuggestCorrections ==
    op = "base.suggest_corrections" =>
        /\ SuggestionsAsDescribed
        /\ Len(ret) <= args[2]

\* C25 amended: the same, with at most max_suggestions entries whenever
\* max_suggestions is at least 1 (an exact word yields its one entry
\* whatever max_suggestions is).
C25_SuggestCorrectionsPositiveLimit ==
    op = "base.suggest_corrections" =>
        /\ SuggestionsAsDescribed
        /\ args[2] >= 1 => Len(ret) <= args[2]

\* without the library "aob" is asked about with max_suggestions 1 on the
\* lexicon aoa, a: both keys pass the filter (aoa by its first two
\* characters only) and the list is truncated to its first entry
C25_Witness ==
    /\ op = "base.suggest_corrections"
    /\ ~rapidfuzz_available
    /\ lexicon = <<<<97, 111, 97>>, <<97>>>>
    /\ args = <<<<97, 111, 98>>, 1>>
    /\ ret = << <<<<97, 111, 97>>, <<50, 1>>>> >>

(***************************************************************************)
(* SpecLanguageModel: an NGramLanguageModel trained, and asked for         *)
(* probabilities, predictions and sentence scores.                         *)
(***************************************************************************)
MaxPredictCandidates == 3

\* the NGramLanguageModel of the state
LanguageModel == [n |-> ngram_n, ngrams |-> ngrams, vocab |-> vocab]

\* the contexts handed to predict_next_word: up to two words
PredictContexts == StringsUpTo(NGramWords, 2)

\* NGramLanguageModel.predict_next_word(context, candidates)
PredictNextWord ==
    /\ op = "idle"
    /\ \E m \in {LanguageModel}, context \in PredictContexts,
          candidates \in StringsUpTo(ProbabilityWords, MaxPredictCandidates) :
          /\ op' = "predict_next_word"
          /\ args' = <<context, candidates>>
          /\ ret' = predict_next_word(m, context, candidates)
    /\ raised' = ""
    /\ UNCHANGED <<fileVars, engineVars, ngramVars, liVars, loadVars>>

\* the probabilities score_sentence adds the logarithms of: one for each
\* word from the n-th on, given the n - 1 words before it
ScoreTerms(words) ==
    [k \in 1..(Len(words) - ngram_n + 1) |->
        probability(words[k + ngram_n - 1], SubSeq(words, k, k + ngram_n - 2))]

\* NGramLanguageModel.score_sentence(sentence).  The value returned is 0.0
\* for a sentence of fewer than n words and else the sum of
\* log(p + 1e-10) over the probabilities p of ScoreTerms; ret keeps the
\* probabilities, the state is what the call leaves behind.
ScoreSentence ==
    /\ op = "idle"
    /\ \E ws \in StringsUpTo(NGramWords, MaxSentenceWords) :
          /\ op' = "score_sentence"
          /\ args' = <<JoinSpace(ws)>>
          /\ ret' = (IF Len(Split(JoinSpace(ws))) < ngram_n
                     THEN <<>>
                     ELSE ScoreTerms(Split(JoinSpace(ws))))
    /\ raised' = ""
    /\ UNCHANGED <<fileVars, engineVars, ngramVars, liVars, loadVars>>

NextLanguageModel == Train \/ Probability \/ PredictNextWord \/ ScoreSentence \/ Return

SpecLanguageModel == InitNGram /\ [][NextLanguageModel]_vars

\* the candidate at position k has a probability no other candidate exceeds
IsMostProbable(context, candidates, k) ==
    \A j \in DOMAIN candidates :
        LET p == probability(candidates[k], context)
            q == probability(candidates[j], context)
        IN p[1] * q[2] >= q[1] * p[2]

\* C26: predict_next_word returns the empty string for an empty candidate
\* list, and else the candidate of maximal probability that comes first in
\* the list.
C26_PredictFirstMostProbable ==
    op = "predict_next_word" =>
        LET context == args[1]
            candidates == args[2]
        IN IF candidates = <<>> THEN ret = <<>>
           ELSE \E k \in DOMAIN candidates :
                   /\ ret = candidates[k]
                   /\ IsMostProbable(context, candidates, k)
                   /\ \A j \in 1..(k - 1) : ~IsMostProbable(context, candidates, j)

\* three different candidates on a trained model: the first is less probable
\* than the other two, which tie, and the second is returned
C26_Witness ==
    /\ op = "predict_next_word"
    /\ vocab # {}
    /\ Len(args[2]) = 3
    /\ ret = args[2][2]
    /\ args[2][1] # args[2][2] /\ args[2][2] # args[2][3] /\ args[2][1] # args[2][3]
    /\ ~IsMostProbable(args[1], args[2], 1)
    /\ IsMostProbable(args[1], args[2], 2)
    /\ IsMostProbable(args[1], args[2], 3)

\* ngrams[c][w] as a Counter gives it: 0 where nothing was counted
CountAt(ng, c, w) ==
    IF c \in DOMAIN ng /\ w \in DOMAIN ng[c] THEN ng[c][w] ELSE 0

\* the number of windows c + [w] of length ngram_n in one sentence
WindowsIn(sentence, c, w) ==
    LET ws == Split(sentence)
    IN Cardinality({i \in 1..Len(ws) :
           /\ i + ngram_n - 1 <= Len(ws)
           /\ SubSeq(ws, i, i + ngram_n - 2) = c
           /\ ws[i + ngram_n - 1] = w})

\* ... and in all the sentences of a corpus
RECURSIVE WindowCount(_, _, _)
WindowCount(corpus, c, w) ==
    IF corpus = <<>> THEN 0
    ELSE WindowsIn(Head(corpus), c, w) + WindowCount(Tail(corpus), c, w)

\* the tokens of all the sentences of a corpus, one after the other
RECURSIVE TokensOfCorpus(_)
TokensOfCorpus(corpus) ==
    IF corpus = <<>> THEN <<>>
    ELSE Split(Head(corpus)) \o TokensOfCorpus(Tail(corpus))

\* the contexts of an n-gram of order ngram_n over the training words
ContextsOfOrder == [1..(ngram_n - 1) -> NGramWords]

\* a train call adds to the model exactly the windows, the tokens and the
\* token count of its corpus, and any other call leaves the model as it is
TrainAddsWindows ==
    IF op' = "train"
    THEN /\ DOMAIN ngrams' \subseteq ContextsOfOrder
         /\ \A c \in ContextsOfOrder, w \in NGramWords :
               CountAt(ngrams', c, w) = CountAt(ngrams, c, w) + WindowCount(args'[1], c, w)
         /\ \A c \in DOMAIN ngrams' :
               /\ DOMAIN ngrams'[c] \subseteq NGramWords
               /\ \A w \in DOMAIN ngrams'[c] : ngrams'[c][w] >= 1
         /\ vocab' = vocab \cup Range(TokensOfCorpus(args'[1]))
         /\ total_words' = total_words + Len(TokensOfCorpus(args'[1]))
         /\ ngram_n' = ngram_n
    ELSE UNCHANGED ngramVars

\* C27: a new model counts nothing, every train call adds the windows, tokens
\* and token count of its sentences to what the model holds (so after any
\* sequence of train calls the model holds the counts over all the sentences
\* trained so far, however they were split into calls), and probability,
\* predict_next_word and score_sentence leave ngrams, vocab and total_words
\* unchanged.
C27_TrainAccumulates ==
    /\ ngrams = <<>> /\ vocab = {} /\ total_words = 0
    /\ [][TrainAddsWindows]_vars

\* a bigram model trained in more than one call: the last call was given
\* the one sentence "a à", and the pair a, à has been counted twice
C27_Witness ==
    /\ op = "train"
    /\ ngram_n = 2
    /\ args = << << <<97, 32, 224>> >> >>
    /\ total_words = 4
    /\ CountAt(ngrams, << <<97>> >>, <<224>>) = 2

\* every token of the text is a lexicon entry and the tokens are one space
\* apart, with no space before the first or after the last
CorrectSingleSpaced(text) ==
    /\ text = JoinSpace(Split(text))
    /\ \A i \in DOMAIN Split(text) : \E n \in DOMAIN lexicon : lexicon[n] = Split(text)[i]

\* C28 as stated: a text whose tokens are all lexicon entries, one space
\* apart, is returned unchanged by _correct_compound_phrases and by
\* correct_text(use_ml=False).
C28_CorrectTextUnchanged ==
    (/\ op \in {"_correct_compound_phrases", "correct_text"}
     /\ CorrectSingleSpaced(args[1]))
        => /\ raised = ""
           /\ ret = args[1]

(***************************************************************************)
(* SpecTokenwise: engines whose lexicon holds tonal variants of one word   *)
(* and a phrase, correcting texts of several tokens.                       *)
(***************************************************************************)
\* the lines of the lexicons: á, à, a, and the phrase "à a"
TokenwiseLines == {<<225>>, <<224>>, <<97>>, <<224, 32, 97>>}

TokenwiseLexiconFiles ==
    {[exists |-> TRUE, lines |-> l] : l \in StringsUpTo(TokenwiseLines, MaxLexLines)}

\* the code points of the texts: a, à, space
TokenwiseAlphabet == {97, 224, 32}

InitTokenwise ==
    /\ \E file \in TokenwiseLexiconFiles, corpus \in CorpusFiles : Constructed(file, corpus)
    /\ NoNGramModel
    /\ NoIntegratedCorrector
    /\ Idle

TokenwiseCorrectText ==
    CorrectTextWithContextOn(StringsUpTo(TokenwiseAlphabet, MaxTextLen))

NextTokenwise == TokenwiseCorrectText \/ Return

SpecTokenwise == InitTokenwise /\ [][NextTokenwise]_vars

\* the places where the text can be cut at a space into a and b
Cuts(text) == {p \in DOMAIN text : text[p] = 32 /\ p > 1 /\ p < Len(text)}

Before(text, p) == SubSeq(text, 1, p - 1)

After(text, p) == SubSeq(text, p + 1, Len(text))

\* the text corrected token by token, each token as a text of its own
CorrectedAlone(text) ==
    JoinSpace([i \in DOMAIN Split(text) |-> correct_text_with_context(Split(text)[i])])

MappingKeepsLastEntry ==
    /\ \A key \in DOMAIN normalized_mapping :
          \E n \in DOMAIN lexicon : _normalize_phrase_key(lexicon[n]) = key
    /\ \A n \in DOMAIN lexicon :
          /\ _normalize_phrase_key(lexicon[n]) \in DOMAIN normalized_mapping
          /\ (\A later \in (n + 1)..Len(lexicon) :
                 _normalize_phrase_key(lexicon[later]) # _normalize_phrase_key(lexicon[n]))
                => normalized_mapping[_normalize_phrase_key(lexicon[n])] = lexicon[n]

\* the five spelling variants of every window of the text have the key of
\* the window
VariantsShareKey(text) ==
    LET words == Split(text)
    IN \A i \in DOMAIN words, n \in 1..4 :
          i + n - 1 <= Len(words) =>
              LET phrase == JoinSpace(SubSeq(words, i, i + n - 1))
              IN \A v \in DOMAIN PhraseVariants(phrase) :
                    _normalize_phrase_key(PhraseVariants(phrase)[v])
                        = _normalize_phrase_key(phrase)

\* the text is one window of one token
OneToken(text) == Split(text) = <<text>>

====
